---- MODULE Spec2Model ----
(***************************************************************************)
(* A model of pyfixmsg: the FIX specification objects (reference.py), the  *)
(* string codec (codecs/stringfix.py), the framing helpers (__init__.py)   *)
(* and the FixMessage facade (fixmessage.py).                              *)
(*                                                                         *)
(* Representation.                                                         *)
(*   - a wire value is the sequence of its character codes ("B" is <<66>>) *)
(*   - a token of the buffer is a pair <<tag, value>>                      *)
(*   - a dict (FixFragment, FixMessage) is the sequence of its items in    *)
(*     insertion order, each item a record [k |-> tag, e |-> entry]        *)
(*   - an entry is [t |-> "s", v |-> codes]   a str/bytes value            *)
(*                 [t |-> "i", v |-> n]       an int value                 *)
(*                 [t |-> "g", v |-> members, nt |-> number_tag,           *)
(*                  ft |-> first_tag]         a RepeatingGroup             *)
(*   - None is the tag 0 / the string "None"                               *)
(***************************************************************************)
EXTENDS Integers, Sequences, FiniteSets, TLC

(***************************************************************************)
(* The specification object the codecs of an application share.            *)
(***************************************************************************)
VARIABLES
    mt        \* the MessageType "B" of the specification: its groups and the
              \* sorting keys it and its Group objects have computed

(***************************************************************************)
(* Bounds of the model.                                                    *)
(***************************************************************************)
\* the longest body (tokens after the header prefix) the peer sends
MaxBody == 3

(***************************************************************************)
(* Character codes and decimal rendering: str(n).encode('ascii').          *)
(***************************************************************************)
SOH == 1
EQUALS == 61
ZERO == 48

RECURSIVE IntToDigits(_)
IntToDigits(n) ==
    IF n < 10 THEN <<ZERO + n>>
    ELSE Append(IntToDigits(n \div 10), ZERO + (n % 10))

RECURSIVE SeqSum(_)
SeqSum(s) == IF s = <<>> THEN 0 ELSE Head(s) + SeqSum(Tail(s))

\* STRSUM: the sum of the bytes of a byte string
STRSUM(s) == SeqSum(s)

(***************************************************************************)
(* reference.py: module constants.                                         *)
(***************************************************************************)
HEADER_TAGS ==
    <<8, 9, 35, 1128, 1156, 1129, 49, 56, 115, 128,
      90, 91, 34, 50, 142, 57, 143, 116, 144, 129, 145,
      43, 97, 52, 122, 212, 213, 347, 369, 370, 1128, 1129>>
TRAILER_TAGS == <<93, 89, 10>>

\* int(1e9 + tag): the rank of a tag the sorting key does not know
UnknownBase == 1000000000
\* int(10e9), the rank of tag 10.  TLC's integers are 32 bits wide, so the
\* model uses 2 * 10^9: above every 1e9 + tag, as 10e9 is in the source.
TrailerBase == 2000000000

\* a dict as a function on its keys; Get(d, k, dflt) is d.get(k, dflt)
Get(d, k, dflt) == IF k \in DOMAIN d THEN d[k] ELSE dflt
Put(d, k, x) == [y \in (DOMAIN d) \cup {k} |-> IF y = k THEN x ELSE d[y]]
EmptyMap == [y \in {} |-> 0]

RECURSIVE EnumerateInto(_, _, _)
\* for index, item in enumerate(items): d[item] = index  (later wins)
EnumerateInto(d, items, index) ==
    IF items = <<>> THEN d
    ELSE EnumerateInto(Put(d, Head(items), index), Tail(items), index + 1)

HEADER_SORT_MAP ==
    LET m == EnumerateInto(EmptyMap, HEADER_TAGS, 0)
    IN  Put(Put(Put(m, 10, TrailerBase), 89, TrailerBase - 1), 93, TrailerBase - 2)

(***************************************************************************)
(* reference.py: the specification objects.  A composition is a sequence   *)
(* of elements; an element is a FixTag ("field"), a Component or a Group.  *)
(* The required flag of an element is read by nothing and is left out.     *)
(***************************************************************************)
Field(n) == [kind |-> "field", tag |-> n, comp |-> <<>>]
Component(c) == [kind |-> "component", tag |-> 0, comp |-> c]
Group(n, c) == [kind |-> "group", tag |-> n, comp |-> c]

\* The FixSpec instance of the model: header and trailer field lists and one
\* message type, "B", holding a component, a group with two sub-groups and
\* a second group (the shapes of the messages of tests/test_ref.py).
SpecHeaderTags == <<8, 9, 35, 49>>
SpecTrailerTags == <<93, 89, 10>>

Comp683 == <<Field(688), Field(689)>>
Comp670 == <<Field(671)>>
Comp215 == <<Field(216), Field(217), Group(683, Comp683), Group(670, Comp670)>>
Comp146 == <<Field(311), Field(312)>>
CompInstrument == <<Field(55), Field(48), Field(22)>>
CompB ==
    <<Field(58), Component(CompInstrument), Group(215, Comp215),
      Field(59), Field(60), Group(146, Comp146)>>

\* the value of tag 35 naming the message type: "B"
MsgTypeB == <<66>>
\* FixSpec.msg_types: 35's value -> composition of the MessageType
MsgTypes == [v \in {MsgTypeB} |-> CompB]

RECURSIVE GetGroups(_)
\* _get_groups: the groups of a composition, through its components, as a
\* sequence (the order of the generator)
GetGroups(composition) ==
    IF composition = <<>> THEN <<>>
    ELSE LET item == Head(composition)
             rest == GetGroups(Tail(composition))
         IN  CASE item.kind = "group" -> <<item>> \o rest
               [] item.kind = "component" -> GetGroups(item.comp) \o rest
               [] OTHER -> rest

RECURSIVE GroupsMap(_, _)
GroupsMap(d, gs) ==
    IF gs = <<>> THEN d
    ELSE GroupsMap(Put(d, Head(gs).tag, Head(gs).comp), Tail(gs))

\* Group.groups / MessageType.groups: count tag -> composition of the group
GroupsOf(composition) == GroupsMap(EmptyMap, GetGroups(composition))

\* Group.tags: the numbers of the FixTag elements of the composition
TagsOf(composition) ==
    {composition[i].tag : i \in {j \in DOMAIN composition :
                                   composition[j].kind = "field"}}

RECURSIVE ExtractBody(_, _, _, _)
\* the loop of _extract_sorting_key over the definition:
\* for index, (item, _) in enumerate(definition)
ExtractBody(sorting_key, definition, start_index, index) ==
    IF index >= Len(definition) THEN sorting_key
    ELSE LET item == definition[index + 1]
             sk == CASE item.kind = "field" ->
                          Put(sorting_key, item.tag, index + start_index)
                      [] item.kind = "component" ->
                          ExtractBody(sorting_key, item.comp,
                                      (index + start_index) + 1, 0)
                      [] OTHER ->
                          Put(sorting_key, item.tag, index + start_index)
         IN  ExtractBody(sk, definition, start_index, index + 1)

RECURSIVE ReverseSeq(_)
ReverseSeq(s) == IF s = <<>> THEN <<>> ELSE Append(ReverseSeq(Tail(s)), Head(s))

RECURSIVE TrailerInto(_, _, _)
\* for index, item in enumerate(trailer_tags[::-1]): sk[item] = 10e9 - index
TrailerInto(d, items, index) ==
    IF items = <<>> THEN d
    ELSE TrailerInto(Put(d, Head(items), TrailerBase - index), Tail(items), index + 1)

\* the ranks with tag 35 set to 0 after the header tags were ranked
ExtractSortingKeyForced(definition, header, trailer) ==
    LET trailer_tags == IF trailer = <<>> THEN TRAILER_TAGS ELSE trailer
        header_tags == IF header = <<>> THEN HEADER_TAGS ELSE header
        sk0 == Put(EmptyMap, 10, TrailerBase)
        sk1 == TrailerInto(sk0, ReverseSeq(trailer_tags), 0)
        sk2 == Put(EnumerateInto(sk1, header_tags, 0), 35, 0)
    IN  ExtractBody(sk2, definition, Len(header_tags), 0)

\* _extract_sorting_key(definition, spec) called with sorting_key=None
ExtractSortingKey(definition, header, trailer) ==
    LET trailer_tags == IF trailer = <<>> THEN TRAILER_TAGS ELSE trailer
        header_tags == IF header = <<>> THEN HEADER_TAGS ELSE header
        sk0 == Put(Put(EmptyMap, 35, 0), 10, TrailerBase)
        sk1 == TrailerInto(sk0, ReverseSeq(trailer_tags), 0)
        sk2 == EnumerateInto(sk1, header_tags, 0)
        \* index is left at the last header index by the loop above
        index == Len(header_tags) - 1
    IN  ExtractBody(sk2, definition, index + 1, 0)

\* MessageType.sorting_key / Group.sorting_key
SortingKey(composition) == ExtractSortingKey(composition, SpecHeaderTags, SpecTrailerTags)

(***************************************************************************)
(* reference.py: the enum values of a FixTag.  _values is the tuple of     *)
(* (value, name) pairs; _val_by_name and _val_by_val are the two lazily    *)
(* built maps, an empty map standing for "not built".                      *)
(***************************************************************************)
\* the default None of the name= and value= keywords
Unset == "<None>"

\* FixTag(name, tag, values=values)
FixTag(name, tag, values) ==
    [name |-> name, tag |-> tag, values |-> values,
     val_by_name |-> EmptyMap, val_by_val |-> EmptyMap]

\* set(v[1] for v in self._values) and set(v[0] for v in self._values)
EnumNames(values) == {values[i][2] : i \in DOMAIN values}
EnumValues(values) == {values[i][1] : i \in DOMAIN values}

\* tuple(pair for pair in self._values if pair[at] != x)
RECURSIVE WithoutPairs(_, _, _)
WithoutPairs(values, at, x) ==
    IF values = << >> THEN << >>
    ELSE IF Head(values)[at] = x THEN WithoutPairs(Tail(values), at, x)
         ELSE <<Head(values)>> \o WithoutPairs(Tail(values), at, x)

\* {pair[key]: pair[val] for pair in values}: a later pair replaces an
\* earlier one with the same key
RECURSIVE EnumMap(_, _, _)
EnumMap(values, key, val) ==
    IF values = << >> THEN EmptyMap
    ELSE Put(EnumMap(SubSeq(values, 1, Len(values) - 1), key, val),
             values[Len(values)][key], values[Len(values)][val])

\* a dict is truthy when it has a key
Truthy(d) == DOMAIN d # {}

\* add_enum_value that appends the pair and leaves built maps as they were
AddEnumValueStale(t, name, value) ==
    IF name \in EnumNames(t.values) THEN [err |-> "KeyError", t |-> t]
    ELSE [err |-> "", t |-> [t EXCEPT !.values = Append(@, <<value, name>>)]]

\* add_enum_value as the source updates the maps: each only when built
AddEnumValue(t, name, value) ==
    IF name \in EnumNames(t.values) THEN [err |-> "KeyError", t |-> t]
    ELSE [err |-> "",
          t |-> [t EXCEPT
                   !.values = Append(@, <<value, name>>),
                   !.val_by_name = IF Truthy(@) THEN Put(@, name, value) ELSE @,
                   !.val_by_val = IF Truthy(@) THEN Put(@, value, name) ELSE @]]

\* del_enum_value(name=name, value=value); with both given the source reads
\* self._val_by_name[name] as the map is, built or not
DelEnumValue(t, name, value) ==
    IF name = Unset /\ value = Unset THEN [err |-> "TypeError", t |-> t]
    ELSE IF name # Unset /\ value # Unset /\ name \notin DOMAIN t.val_by_name
    THEN [err |-> "KeyError", t |-> t]
    ELSE IF name # Unset /\ value # Unset /\ t.val_by_name[name] # value
    THEN [err |-> "ValueError", t |-> t]
    ELSE IF name # Unset
    THEN IF name \notin EnumNames(t.values) THEN [err |-> "KeyError", t |-> t]
         ELSE [err |-> "",
               t |-> [t EXCEPT !.values = WithoutPairs(@, 2, name),
                               !.val_by_name = EmptyMap, !.val_by_val = EmptyMap]]
    ELSE IF value \notin EnumValues(t.values)
         THEN [err |-> "KeyError", t |-> t]
         ELSE [err |-> "",
               t |-> [t EXCEPT !.values = WithoutPairs(@, 1, value),
                               !.val_by_name = EmptyMap, !.val_by_val = EmptyMap]]

\* the FixTag after enum_by_name built its map, if it had to
NameMapped(t) ==
    IF Truthy(t.val_by_name) THEN t
    ELSE [t EXCEPT !.val_by_name = EnumMap(t.values, 2, 1)]

\* enum_by_name(name): [err, val, t]
EnumByName(t, name) ==
    IF name \in DOMAIN NameMapped(t).val_by_name
    THEN [err |-> "", val |-> NameMapped(t).val_by_name[name],
          t |-> NameMapped(t)]
    ELSE [err |-> "KeyError", val |-> Unset, t |-> NameMapped(t)]

\* the FixTag after enum_by_value built its map, if it had to
ValueMapped(t) ==
    IF Truthy(t.val_by_val) THEN t
    ELSE [t EXCEPT !.val_by_val = EnumMap(t.values, 1, 2)]

\* enum_by_value(value): [err, val, t]
EnumByValue(t, value) ==
    IF value \in DOMAIN ValueMapped(t).val_by_val
    THEN [err |-> "", val |-> ValueMapped(t).val_by_val[value],
          t |-> ValueMapped(t)]
    ELSE [err |-> "KeyError", val |-> Unset, t |-> ValueMapped(t)]

(***************************************************************************)
(* reference.py: TagsReference.  tags is the set of FixTag objects, kept   *)
(* here in creation order so that the position of an object is its         *)
(* identity; _by_name and _by_tag map a key to an object, an empty map     *)
(* standing for "not built".  Building a map iterates the set in an order  *)
(* the program does not control: among objects with the same key any one   *)
(* may be the one the map keeps.                                           *)
(***************************************************************************)
\* TagsReference(tags), before the eager lookups
TagsReference(tags) ==
    [tags |-> tags, by_name |-> EmptyMap, by_tag |-> EmptyMap]

\* {t.name: t for t in self.tags}
ByNameMaps(tags) ==
    {f \in [{tags[i].name : i \in DOMAIN tags} -> DOMAIN tags] :
        \A k \in DOMAIN f : tags[f[k]].name = k}

\* {t.tag: t for t in self.tags}
ByTagMaps(tags) ==
    {f \in [{tags[i].tag : i \in DOMAIN tags} -> DOMAIN tags] :
        \A k \in DOMAIN f : tags[f[k]].tag = k}

\* add_tag that adds the object to the set and leaves built maps as they were
AddTagStale(r, tag, name) ==
    [r EXCEPT !.tags = Append(@, FixTag(name, tag, << >>))]

\* add_tag(tag, name): the new object is the last of tags
AddTag(r, tag, name) ==
    [r EXCEPT
       !.tags = Append(@, FixTag(name, tag, << >>)),
       !.by_name = IF Truthy(@) THEN Put(@, name, Len(r.tags) + 1) ELSE @,
       !.by_tag = IF Truthy(@) THEN Put(@, tag, Len(r.tags) + 1) ELSE @]

\* the catalogs by_name may leave behind: the map is built when it is empty
NameIndexed(r) ==
    IF Truthy(r.by_name) THEN {r}
    ELSE {[r EXCEPT !.by_name = f] : f \in ByNameMaps(r.tags)}

\* by_name(name) on a catalog whose map is there: [err, val, r]
ByName(r, name) ==
    IF name \in DOMAIN r.by_name
    THEN [err |-> "", val |-> r.by_name[name], r |-> r]
    ELSE [err |-> "KeyError", val |-> 0, r |-> r]

\* the catalogs by_tag may leave behind
TagIndexed(r) ==
    IF Truthy(r.by_tag) THEN {r}
    ELSE {[r EXCEPT !.by_tag = f] : f \in ByTagMaps(r.tags)}

\* by_tag(tag) on a catalog whose map is there: [err, val, r]
ByTag(r, tag) ==
    IF tag \in DOMAIN r.by_tag
    THEN [err |-> "", val |-> r.by_tag[tag], r |-> r]
    ELSE [err |-> "KeyError", val |-> 0, r |-> r]

(***************************************************************************)
(* dict: the items in insertion order.                                     *)
(***************************************************************************)
None == 0
StrVal(codes) == [t |-> "s", v |-> codes, nt |-> None, ft |-> None]
IntVal(n) == [t |-> "i", v |-> n, nt |-> None, ft |-> None]
\* RepeatingGroup: the list of members, number_tag and first_tag
RGroup(members, number_tag, first_tag) ==
    [t |-> "g", v |-> members, nt |-> number_tag, ft |-> first_tag]
IsGroup(e) == e.t = "g"

Keys(d) == {d[i].k : i \in DOMAIN d}
Has(d, k) == \E i \in DOMAIN d : d[i].k = k
IndexOf(d, k) == CHOOSE i \in DOMAIN d : d[i].k = k
At(d, k) == d[IndexOf(d, k)].e
\* d[k] = e: a known key keeps its place, a new key goes last
SetItem(d, k, e) ==
    IF Has(d, k) THEN [d EXCEPT ![IndexOf(d, k)] = [k |-> k, e |-> e]]
    ELSE Append(d, [k |-> k, e |-> e])
\* del d[k]
DelItem(d, k) ==
    LET i == IndexOf(d, k)
    IN  SubSeq(d, 1, i - 1) \o SubSeq(d, i + 1, Len(d))
\* if k in d: del d[k]
Discard(d, k) == IF Has(d, k) THEN DelItem(d, k) ELSE d

RECURSIVE DictOf(_, _)
\* dict(tagvals): a later pair with a known tag replaces the value in place
DictOf(d, tagvals) ==
    IF tagvals = <<>> THEN d
    ELSE DictOf(SetItem(d, Head(tagvals)[1], StrVal(Head(tagvals)[2])), Tail(tagvals))

RECURSIVE Update(_, _)
\* d.update(other)
Update(d, other) ==
    IF other = <<>> THEN d
    ELSE Update(SetItem(d, Head(other).k, Head(other).e), Tail(other))

RECURSIVE EntryEq(_, _)
RECURSIVE DictEq(_, _)
\* == of two values: str with str, int with int, list with list (the members
\* pairwise, number_tag and first_tag are no part of list equality)
EntryEq(x, y) ==
    /\ x.t = y.t
    /\ IF x.t = "g"
       THEN /\ Len(x.v) = Len(y.v)
            /\ \A i \in DOMAIN x.v : DictEq(x.v[i], y.v[i])
       ELSE x.v = y.v
\* dict.__eq__: the same keys with equal values, in any order
DictEq(x, y) ==
    /\ Keys(x) = Keys(y)
    /\ \A i \in DOMAIN x : EntryEq(x[i].e, At(y, x[i].k))

(***************************************************************************)
(* codecs/stringfix.py: the tokeniser, FIX_REGEX_STRING: a run of          *)
(* characters other than separator and delimiter (the tag), a delimiter,   *)
(* the shortest text (the value) up to a separator that is not followed by *)
(* word characters and a separator.                                        *)
(***************************************************************************)
IsDigit(c) == c >= 48 /\ c <= 57
\* \w of an ASCII pattern: [a-zA-Z0-9_]
IsWord(c) == IsDigit(c) \/ (c >= 65 /\ c <= 90) \/ (c >= 97 /\ c <= 122) \/ c = 95

RECURSIVE DigitsToInt(_)
\* int(val) of a string of decimal digits
DigitsToInt(codes) ==
    IF codes = <<>> THEN 0
    ELSE DigitsToInt(SubSeq(codes, 1, Len(codes) - 1)) * 10
           + (codes[Len(codes)] - ZERO)

RECURSIVE FirstOf(_, _, _, _)
\* the first index >= p holding the character s or d, or Len(b) + 1
FirstOf(b, p, d, s) ==
    IF p > Len(b) THEN p
    ELSE IF b[p] = d \/ b[p] = s THEN p
    ELSE FirstOf(b, p + 1, d, s)

RECURSIVE WordEnd(_, _)
\* the first index >= i holding no word character, or Len(b) + 1
WordEnd(b, i) ==
    IF i > Len(b) THEN i
    ELSE IF IsWord(b[i]) THEN WordEnd(b, i + 1)
    ELSE i

\* \w+{s} matches at index i
WordThenSep(b, i, s) ==
    LET e == WordEnd(b, i)
    IN  e > i /\ e <= Len(b) /\ b[e] = s

RECURSIVE ValueEnd(_, _, _)
\* the first index >= q holding a separator that no \w+{s} follows, or 0
ValueEnd(b, q, s) ==
    IF q > Len(b) THEN 0
    ELSE IF b[q] = s /\ ~WordThenSep(b, q + 1, s) THEN q
    ELSE ValueEnd(b, q + 1, s)

RECURSIVE FindAll(_, _, _, _)
\* custom_r.findall(buff) from index p on: the pairs (tag text, value text)
FindAll(b, p, d, s) ==
    IF p > Len(b) THEN <<>>
    ELSE LET e == FirstOf(b, p, d, s)
         IN  IF e <= Len(b) /\ b[e] = d
             THEN LET q == ValueEnd(b, e + 1, s)
                  IN  IF q = 0 THEN FindAll(b, p + 1, d, s)
                      ELSE <<<<SubSeq(b, p, e - 1), SubSeq(b, e + 1, q - 1)>>>>
                             \o FindAll(b, q + 1, d, s)
             ELSE FindAll(b, e + 1, d, s)

\* int_or_str(tag): the tags of the model are decimal numbers
IntOrStr(text) == DigitsToInt(text)

\* the tagvals of Codec.parse: (int_or_str(tag), value) for every match
Tokenise(b, d, s) ==
    LET found == FindAll(b, 1, d, s)
    IN  [i \in DOMAIN found |-> <<IntOrStr(found[i][1]), found[i][2]>>]

(***************************************************************************)
(* codecs/stringfix.py: pushback_generator.  The generator object is       *)
(* [i |-> items taken from the iterator, mode |-> where it is suspended,   *)
(*  back |-> the value of its variable back].                              *)
(*    "start"  not started         "value"  at  back = yield value         *)
(*    "back1"  at the first yield back      "back2"  at the second         *)
(*    "done"   finished                                                    *)
(***************************************************************************)
NoToken == <<None, <<>>>>
NewGen == [i |-> 0, mode |-> "start", back |-> NoToken]

\* resuming the for loop of the generator: the next item or StopIteration
GenAdvance(toks, g) ==
    IF g.i < Len(toks)
    THEN [g |-> [i |-> g.i + 1, mode |-> "value", back |-> NoToken],
          out |-> toks[g.i + 1], stop |-> FALSE]
    ELSE [g |-> [i |-> g.i, mode |-> "done", back |-> NoToken],
          out |-> NoToken, stop |-> TRUE]

\* a generator that yields the item pushed back once more
GenNextTwice(toks, g) ==
    CASE g.mode = "back1" ->
           [g |-> [g EXCEPT !.mode = "again"], out |-> g.back, stop |-> FALSE]
      [] g.mode = "again" ->
           [g |-> [g EXCEPT !.mode = "back2"], out |-> g.back, stop |-> FALSE]
      [] g.mode = "done" -> [g |-> g, out |-> NoToken, stop |-> TRUE]
      [] OTHER -> GenAdvance(toks, g)

\* next(gen)
GenNext(toks, g) ==
    CASE g.mode = "back1" ->
           [g |-> [g EXCEPT !.mode = "back2"], out |-> g.back, stop |-> FALSE]
      [] g.mode = "done" -> [g |-> g, out |-> NoToken, stop |-> TRUE]
      [] OTHER -> GenAdvance(toks, g)

\* a send that takes the following item from the iterator before it yields
GenSendSkipping(toks, g, x) ==
    CASE g.mode = "value" ->
           [g EXCEPT !.mode = "back1", !.back = x,
                     !.i = IF g.i < Len(toks) THEN g.i + 1 ELSE g.i]
      [] g.mode = "back1" -> [g EXCEPT !.mode = "back2"]
      [] g.mode = "back2" -> GenAdvance(toks, g).g
      [] OTHER -> g

\* gen.send(x); the caller drops the value send returns
GenSend(toks, g, x) ==
    CASE g.mode = "value" -> [g EXCEPT !.mode = "back1", !.back = x]
      [] g.mode = "back1" -> [g EXCEPT !.mode = "back2"]
      [] g.mode = "back2" -> GenAdvance(toks, g).g
      [] OTHER -> g

(***************************************************************************)
(* codecs/stringfix.py: Codec.  A codec is [spec |-> whether it was built  *)
(* with the FixSpec of the model, no_groups |-> its _no_groups].           *)
(***************************************************************************)
\* Codec.__init__
NewCodec(spec, no_groups) ==
    [spec |-> spec, no_groups |-> IF ~spec THEN TRUE ELSE no_groups]

NoType == [known |-> FALSE, comp |-> <<>>, groups |-> EmptyMap]
\* spec.msg_types.get(value): the MessageType, with the groups it has now
MsgTypeGet(value) ==
    IF value \in DOMAIN MsgTypes
    THEN [known |-> TRUE, comp |-> MsgTypes[value], groups |-> mt.groups]
    ELSE NoType

RECURSIVE LookAheadWide(_, _, _)
\* the message type looked for in every match
LookAheadWide(found, i, msg_type) ==
    IF i > Len(found) THEN msg_type
    ELSE LookAheadWide(found, i + 1,
                       IF found[i][1] = <<51, 53>> THEN MsgTypeGet(found[i][2])
                       ELSE msg_type)

RECURSIVE LookAhead(_, _, _)
\* for i in range(4): if tagvals[i][0] == '35': msg_type = msg_types.get(...)
\* (found holds at least four matches)
LookAhead(found, i, msg_type) ==
    IF i > 4 THEN msg_type
    ELSE LookAhead(found, i + 1,
                   IF found[i][1] = <<51, 53>> THEN MsgTypeGet(found[i][2])
                   ELSE msg_type)

\* the member test made before the first-tag test
TrailingMemberFirst(tag, first_tag, valid_tags) ==
    IF tag \in valid_tags THEN "member"
    ELSE IF tag = first_tag THEN "first"
    ELSE "out"

\* the tests _process_group makes on the tag of the token an embedded group
\* handed back: if tag == first_tag: ... elif tag in group.tags: ... else
Trailing(tag, first_tag, valid_tags) ==
    IF tag = first_tag THEN "first"
    ELSE IF tag \in valid_tags THEN "member"
    ELSE "out"

RECURSIVE ProcessGroup(_, _, _, _)
RECURSIVE GroupLoop(_, _, _, _, _, _, _)
\* the for loop of _process_group: rep the members appended so far, member
\* the current one.  The result is [contents, last, g]: the RepeatingGroup,
\* last_tagval (NoToken for None) and the generator as it is left.
GroupLoop(toks, g, identifying_tag, group, rep, member, first_tag) ==
    LET r == GenNext(toks, g)
        tag == r.out[1]
        value == r.out[2]
        inner_groups == GroupsOf(group)
        valid_tags == TagsOf(group)
    IN  IF r.stop
        THEN [contents |-> RGroup(Append(rep, member), identifying_tag, first_tag),
               last |-> NoToken, g |-> r.g]
        ELSE CASE first_tag = None ->
                    GroupLoop(toks, r.g, identifying_tag, group, rep,
                              SetItem(member, tag, StrVal(value)), tag)
               [] first_tag # None /\ first_tag = tag ->
                    GroupLoop(toks, r.g, identifying_tag, group, Append(rep, member),
                              SetItem(<<>>, tag, StrVal(value)), first_tag)
               [] first_tag # None /\ first_tag # tag /\ tag \in valid_tags ->
                    GroupLoop(toks, r.g, identifying_tag, group, rep,
                              SetItem(member, tag, StrVal(value)), first_tag)
               [] first_tag # None /\ first_tag # tag /\ tag \notin valid_tags
                    /\ tag \in DOMAIN inner_groups ->
                    LET sub == ProcessGroup(toks, r.g, tag, inner_groups[tag])
                        m1 == SetItem(member, tag, sub.contents)
                        t == sub.last[1]
                        val == sub.last[2]
                    IN  IF sub.last = NoToken
                        THEN GroupLoop(toks, sub.g, identifying_tag, group, rep, m1,
                                       first_tag)
                        ELSE IF Trailing(t, first_tag, valid_tags) = "first"
                        THEN GroupLoop(toks, sub.g, identifying_tag, group,
                                       Append(rep, m1),
                                       SetItem(<<>>, t, StrVal(val)), first_tag)
                        ELSE IF Trailing(t, first_tag, valid_tags) = "member"
                        THEN GroupLoop(toks, sub.g, identifying_tag, group, rep,
                                       SetItem(m1, t, StrVal(val)), first_tag)
                        ELSE [contents |-> RGroup(Append(rep, m1), identifying_tag,
                                                  first_tag),
                              last |-> sub.last, g |-> sub.g]
               [] OTHER ->
                    [contents |-> RGroup(Append(rep, member), identifying_tag,
                                         first_tag),
                     last |-> r.out, g |-> r.g]

\* first_tag starts as the count tag instead of None
ProcessGroupPreset(toks, g, identifying_tag, group) ==
    GroupLoop(toks, g, identifying_tag, group, <<>>, <<>>, identifying_tag)

\* Codec._process_group(identifying_tag, enumerator, msg_type, group)
ProcessGroup(toks, g, identifying_tag, group) ==
    GroupLoop(toks, g, identifying_tag, group, <<>>, <<>>, None)

RECURSIVE TopLoop(_, _, _, _)
\* the for loop of Codec.parse over the pushback generator
TopLoop(toks, g, groups, msg) ==
    LET r == GenNext(toks, g)
        tag == r.out[1]
        value == r.out[2]
    IN  IF r.stop THEN msg
        ELSE IF tag \notin DOMAIN groups
        THEN TopLoop(toks, r.g, groups, SetItem(msg, tag, StrVal(value)))
        ELSE IF value = <<ZERO>>
        THEN TopLoop(toks, r.g, groups, SetItem(msg, tag, RGroup(<<>>, tag, None)))
        ELSE LET sub == ProcessGroup(toks, r.g, tag, groups[tag])
                 m1 == SetItem(msg, tag, sub.contents)
             IN  TopLoop(toks,
                         IF sub.last # NoToken THEN GenSend(toks, sub.g, sub.last)
                         ELSE sub.g,
                         groups, m1)

\* a parse that never looks for the message type
ParseFlat(codec, buff, delimiter, separator) ==
    [err |-> "", d |-> DictOf(<<>>, Tokenise(buff, delimiter, separator))]

\* Codec.parse(buff, delimiter, separator): [err, d], err "" when a fragment
\* is returned
Parse(codec, buff, delimiter, separator) ==
    LET found == FindAll(buff, 1, delimiter, separator)
        tagvals == [i \in DOMAIN found |-> <<IntOrStr(found[i][1]), found[i][2]>>]
        looks == ~codec.no_groups /\ codec.spec
    IN  IF looks /\ Len(found) < 4
        THEN [err |-> "IndexError", d |-> <<>>]
        ELSE LET msg_type == IF looks THEN LookAhead(found, 1, NoType) ELSE NoType
             IN  IF codec.no_groups \/ ~codec.spec \/ ~msg_type.known
                 THEN [err |-> "", d |-> DictOf(<<>>, tagvals)]
                 ELSE [err |-> "",
                       d |-> TopLoop(tagvals, NewGen, msg_type.groups, <<>>)]

(***************************************************************************)
(* codecs/stringfix.py: Codec._unmap and Codec.serialise.                  *)
(***************************************************************************)
RECURSIVE InsertByKey(_, _, _)
\* x goes behind every item whose key is not above its own
InsertByKey(sorted, x, key) ==
    IF sorted = <<>> THEN <<x>>
    ELSE IF key[Head(sorted).k] <= key[x.k]
         THEN <<Head(sorted)>> \o InsertByKey(Tail(sorted), x, key)
         ELSE <<x>> \o sorted

RECURSIVE SortLoop(_, _, _)
SortLoop(sorted, items, key) ==
    IF items = <<>> THEN sorted
    ELSE SortLoop(InsertByKey(sorted, Head(items), key), Tail(items), key)

\* list.sort(key=...): stable, ascending; key maps every tag of items
SortItems(items, key) == SortLoop(<<>>, items, key)

\* lambda x: sorting_key.get(x[0], int(1e9 + x[0])), for the tags of msg
KeyFor(msg, sorting_key) ==
    [k \in Keys(msg) |-> Get(sorting_key, k, UnknownBase + k)]

\* MessageType("B") as the specification is built: the groups of its
\* composition, no sorting key, and no sorting key in any of its Groups
TypeB ==
    [groups |-> GroupsOf(CompB), sorting_key |-> EmptyMap,
     group_keys |-> EmptyMap]

\* MessageType.sorting_key on the MessageType m: the key it holds, computed
\* when it holds none (None and the empty dict are both falsy)
TypeKey(m, composition) ==
    IF Truthy(m.sorting_key) THEN m.sorting_key ELSE SortingKey(composition)

\* Group.sorting_key of the Group under the count tag, as m holds its key
GroupKey(m, tag, composition) ==
    IF tag \in DOMAIN m.group_keys THEN m.group_keys[tag]
    ELSE SortingKey(composition)

\* add_group that ranks the count tag and leaves the groups as they were
AddGroupRankOnly(m, count_tag, composition, insert_at) ==
    IF insert_at # None
    THEN [m EXCEPT !.sorting_key = Put(TypeKey(m, CompB), count_tag, insert_at)]
    ELSE m

\* MessageType.add_group(count_tag, composition, insert_at): a new Group,
\* holding no sorting key, is the group of the count tag; a truthy insert_at
\* is written into the sorting key, which the property computes if need be
AddGroup(m, count_tag, composition, insert_at) ==
    [m EXCEPT
       !.groups = Put(@, count_tag, composition),
       !.group_keys = [t \in (DOMAIN @) \ {count_tag} |-> @[t]],
       !.sorting_key = IF insert_at # None
                       THEN Put(TypeKey(m, CompB), count_tag, insert_at)
                       ELSE @]

Elements(s) == {s[i] : i \in DOMAIN s}

RECURSIVE Joined(_, _)
\* s1 followed by the elements of s2 it does not hold, each once
Joined(s1, s2) ==
    IF s2 = <<>> THEN s1
    ELSE Joined(IF Head(s2) \in Elements(s1) THEN s1 ELSE Append(s1, Head(s2)),
                Tail(s2))

RECURSIVE SortValues(_, _, _, _)
RECURSIVE ExpandItems(_, _, _)
RECURSIVE ExpandMembers(_, _, _, _)
\* for member in val: expanded.extend(sort_values(member, downspec)); seen
\* are the count tags of the Groups whose sorting_key was read, in the order
\* of the first read: the key function of the sort reads the key of the
\* Group once for every item of the member
ExpandMembers(members, tag, downspec, m) ==
    IF members = <<>> THEN [err |-> "", tv |-> <<>>, seen |-> <<>>]
    ELSE LET h == SortValues(Head(members), GroupKey(m, tag, downspec),
                             GroupsOf(downspec), m)
             r == ExpandMembers(Tail(members), tag, downspec, m)
             first == IF Head(members) = <<>> THEN <<>> ELSE <<tag>>
         IN  IF h.err # "" THEN [h EXCEPT !.seen = Joined(first, @)]
             ELSE IF r.err # ""
             THEN [r EXCEPT !.seen = Joined(Joined(first, h.seen), @)]
             ELSE [err |-> "", tv |-> h.tv \o r.tv,
                   seen |-> Joined(Joined(first, h.seen), r.seen)]

\* for tag, val in tvals: ... of sort_values
ExpandItems(tvals, groups, m) ==
    IF tvals = <<>> THEN [err |-> "", tv |-> <<>>, seen |-> <<>>]
    ELSE LET tag == Head(tvals).k
             val == Head(tvals).e
             h == IF ~IsGroup(val)
                  THEN [err |-> "", tv |-> <<<<tag, val>>>>, seen |-> <<>>]
                  ELSE IF tag \notin DOMAIN groups
                  THEN [err |-> "KeyError", tv |-> <<>>, seen |-> <<>>]
                  ELSE LET x == ExpandMembers(val.v, tag, groups[tag], m)
                       IN  [err |-> x.err,
                            tv |-> <<<<tag, IntVal(Len(val.v))>>>> \o x.tv,
                            seen |-> x.seen]
         IN  IF h.err # "" THEN h
             ELSE LET r == ExpandItems(Tail(tvals), groups, m)
                  IN  IF r.err # "" THEN [r EXCEPT !.seen = Joined(h.seen, @)]
                      ELSE [err |-> "", tv |-> h.tv \o r.tv,
                            seen |-> Joined(h.seen, r.seen)]

\* sort_values(msg, spec): spec a MessageType or Group, given by the sorting
\* key and the groups it has
SortValues(msg, sorting_key, groups, m) ==
    ExpandItems(SortItems(msg, KeyFor(msg, sorting_key)), groups, m)

\* what sort_values returns for the MessageType: top tells that its sorting
\* key was read
Sorted(r) == [err |-> r.err, tv |-> r.tv, top |-> TRUE, seen |-> r.seen]

\* Codec._unmap(msg) with the MessageType as m: [err, tv, top, seen], tv the
\* (tag, value) pairs in output order, seen the Groups whose key was read
UnmapIn(m, codec, msg) ==
    IF ~codec.spec
    THEN [err |-> "",
          tv |-> LET sorted == SortItems(msg, KeyFor(msg, HEADER_SORT_MAP))
                 IN  [i \in DOMAIN sorted |-> <<sorted[i].k, sorted[i].e>>],
          top |-> FALSE, seen |-> <<>>]
    ELSE IF ~Has(msg, 35)
    THEN [err |-> "KeyError", tv |-> <<>>, top |-> FALSE, seen |-> <<>>]
    ELSE IF At(msg, 35).t # "s" \/ At(msg, 35).v \notin DOMAIN MsgTypes
    THEN [err |-> "KeyError", tv |-> <<>>, top |-> FALSE, seen |-> <<>>]
    ELSE Sorted(SortValues(msg, TypeKey(m, MsgTypes[At(msg, 35).v]),
                           m.groups, m))

\* Codec._unmap(msg)
Unmap(codec, msg) == UnmapIn(mt, codec, msg)

RECURSIVE GroupAt(_, _)
\* the composition of the Group under a count tag, at any depth below groups
GroupAt(groups, tag) ==
    IF tag \in DOMAIN groups THEN groups[tag]
    ELSE LET under == {t \in DOMAIN groups :
                         GroupAt(GroupsOf(groups[t]), tag) # << >>}
         IN  IF under = {} THEN << >>
             ELSE GroupAt(GroupsOf(groups[CHOOSE t \in under : TRUE]), tag)

\* the sorting_key properties store the order of the header tags instead of
\* the key they computed
KeyedAsHeader(m, u) ==
    [m EXCEPT
       !.sorting_key = IF u.top THEN HEADER_SORT_MAP ELSE @,
       !.group_keys = [t \in (DOMAIN @) \cup Elements(u.seen) |->
                         HEADER_SORT_MAP]]

\* the MessageType after the sorting_key properties that a call of _unmap
\* read have stored the keys they computed
Keyed(m, u) ==
    [m EXCEPT
       !.sorting_key = IF u.top THEN TypeKey(m, CompB) ELSE @,
       !.group_keys = [t \in (DOMAIN @) \cup Elements(u.seen) |->
                         GroupKey(m, t, GroupAt(m.groups, t))]]

\* the MessageType after codec.serialise(msg)
AfterUnmap(codec, msg) == Keyed(mt, Unmap(codec, msg))

RECURSIVE Emit(_, _, _)
\* the loop of serialise: tag, delimiter, value, separator for every pair
Emit(tag_vals, separator, delimiter) ==
    IF tag_vals = <<>> THEN [err |-> "", out |-> <<>>]
    ELSE LET tag == Head(tag_vals)[1]
             value == Head(tag_vals)[2]
         IN  IF IsGroup(value) THEN [err |-> "TypeError", out |-> <<>>]
             ELSE LET r == Emit(Tail(tag_vals), separator, delimiter)
                      text == IF value.t = "i" THEN IntToDigits(value.v) ELSE value.v
                  IN  IF r.err # "" THEN r
                      ELSE [err |-> "",
                            out |-> IntToDigits(tag) \o <<delimiter>> \o text
                                      \o <<separator>> \o r.out]

\* the rest of serialise, u the result of _unmap
Emitted(u, separator, delimiter) ==
    IF u.err # "" THEN [err |-> u.err, out |-> <<>>]
    ELSE Emit(u.tv, separator, delimiter)

\* Codec.serialise(msg, separator, delimiter) with the MessageType as m
SerialiseIn(m, codec, msg, separator, delimiter) ==
    Emitted(UnmapIn(m, codec, msg), separator, delimiter)

\* Codec.serialise(msg, separator, delimiter): [err, out]
Serialise(codec, msg, separator, delimiter) ==
    Emitted(Unmap(codec, msg), separator, delimiter)

(***************************************************************************)
(* __init__.py: len_and_chsum; fixmessage.py: checksum.                    *)
(***************************************************************************)
RECURSIVE LenAndChsum(_, _)
RECURSIVE LenChsumItems(_)
RECURSIVE LenChsumMembers(_)
\* for member in value: len_and_chsum(member, True), summed
LenChsumMembers(members) ==
    IF members = <<>> THEN <<0, 0>>
    ELSE LET h == LenAndChsum(Head(members), TRUE)
             r == LenChsumMembers(Tail(members))
         IN  <<h[1] + r[1], h[2] + r[2]>>

\* the loop of len_and_chsum over msg.items(): <<count, chsum_count>>
LenChsumItems(items) ==
    IF items = <<>> THEN <<0, 0>>
    ELSE LET tag == IntToDigits(Head(items).k)
             e == Head(items).e
             value == IF e.t = "i" THEN IntToDigits(e.v) ELSE e.v
             r == LenChsumItems(Tail(items))
             h == IF tag = <<56>>
                  THEN <<0, STRSUM(tag) + STRSUM(value) + 1 + 61>>
                  ELSE IF tag = <<57>> \/ tag = <<49, 48>>
                  THEN <<0, 0>>
                  ELSE IF IsGroup(e)
                  THEN LET g_tag == IntToDigits(e.nt)
                           g_val == IntToDigits(Len(e.v))
                           m == LenChsumMembers(e.v)
                       IN  <<Len(g_tag) + 1 + Len(g_val) + 1 + m[1],
                             STRSUM(g_tag) + 1 + STRSUM(g_val) + 61 + m[2]>>
                  ELSE <<Len(tag) + 1 + Len(value) + 1,
                         STRSUM(tag) + 1 + STRSUM(value) + 61>>
         IN  <<h[1] + r[1], h[2] + r[2]>>

\* len_and_chsum(msg, group)
LenAndChsum(msg, group) ==
    LET r == LenChsumItems(msg)
    IN  IF group THEN r
        ELSE <<r[1], r[2] + 119 + STRSUM(IntToDigits(r[1]))>>

\* '{0:03d}'.format(value % 256)
Checksum(value) ==
    LET v == value % 256
    IN  <<ZERO + (v \div 100), ZERO + ((v \div 10) % 10), ZERO + (v % 10)>>

(***************************************************************************)
(* fixmessage.py: FixFragment, and RepeatingGroup of __init__.py: the      *)
(* searches.  The members of a group are FixFragments (the codec is built  *)
(* with fragment_class=FixFragment).  A path is a sequence of keys.        *)
(***************************************************************************)
\* anywhere that looks at the keys of the fragment only
AnywhereShallow(d, tag) == Has(d, tag)

RECURSIVE Anywhere(_, _)
\* FixFragment.anywhere(tag)
Anywhere(d, tag) ==
    \/ Has(d, tag)
    \/ \E i \in DOMAIN d :
          /\ IsGroup(d[i].e)
          /\ \E j \in DOMAIN d[i].e.v : Anywhere(d[i].e.v[j], tag)

RECURSIVE Prefixed(_, _)
\* every path of paths with the key in front
Prefixed(key, paths) ==
    IF paths = <<>> THEN <<>>
    ELSE <<<<key>> \o Head(paths)>> \o Prefixed(key, Tail(paths))

RECURSIVE FindPaths(_, _)
RECURSIVE FindAllItems(_, _)
RECURSIVE FindAllMembers(_, _, _)
\* RepeatingGroup.find_all(tag): the paths in the order they are yielded
FindAllMembers(members, index, tag) ==
    IF index >= Len(members) THEN <<>>
    ELSE (IF Anywhere(members[index + 1], tag)
          THEN Prefixed(index, FindPaths(members[index + 1], tag))
          ELSE <<>>)
         \o FindAllMembers(members, index + 1, tag)

\* for innertag, value in list(self.items()): ... of FixFragment.find_all
FindAllItems(items, tag) ==
    IF items = <<>> THEN <<>>
    ELSE (IF IsGroup(Head(items).e)
          THEN Prefixed(Head(items).k, FindAllMembers(Head(items).e.v, 0, tag))
          ELSE <<>>)
         \o FindAllItems(Tail(items), tag)

\* FixFragment.find_all(tag): the paths in the order they are yielded
FindPaths(d, tag) ==
    (IF Has(d, tag) THEN <<<<tag>>>> ELSE <<>>) \o FindAllItems(d, tag)

RECURSIVE AllTags(_)
\* FixFragment.all_tags(), as a set
AllTags(d) ==
    Keys(d) \cup UNION {UNION {AllTags(d[i].e.v[j]) : j \in DOMAIN d[i].e.v} :
                          i \in {n \in DOMAIN d : IsGroup(d[n].e)}}

(***************************************************************************)
(* fixmessage.py: FixMessage.  A message is its dict d and its attributes; *)
(* oid tells one object from another, codec is the codec object it holds.  *)
(***************************************************************************)
SEMICOLON == 59
NoRaw == [some |-> FALSE, v |-> <<>>]
Raw(b) == [some |-> TRUE, v |-> b]

\* FixMessage.__init__: an empty dict, time the clock, a fresh Codec()
NewMessage(oid, codec_id, clock) ==
    [d |-> <<>>, time |-> clock, recipient |-> "", process |-> "",
     direction |-> "None", raw_message |-> NoRaw,
     codec |-> [id |-> codec_id, c |-> NewCodec(FALSE, FALSE)], oid |-> oid]

IsSpace(c) == c \in {9, 10, 11, 12, 13, 32}
RECURSIVE LStrip(_)
LStrip(b) == IF b # <<>> /\ IsSpace(Head(b)) THEN LStrip(Tail(b)) ELSE b
RECURSIVE RStrip(_)
RStrip(b) ==
    IF b # <<>> /\ IsSpace(b[Len(b)]) THEN RStrip(SubSeq(b, 1, Len(b) - 1)) ELSE b
\* bytes.strip()
Strip(b) == RStrip(LStrip(b))

\* self.update(fix_msg); self.process = process, r the result of parse
LoadParsed(m, r) ==
    IF r.err # "" THEN [err |-> r.err, m |-> m]
    ELSE [err |-> "",
          m |-> [m EXCEPT !.d = Update(m.d, r.d), !.process = "None"]]

\* FixMessage.load_fix(string, process=None, separator): [err, m]
LoadFix(m, string, separator) ==
    LoadParsed(m, Parse(m.codec.c, Strip(string), EQUALS, separator))

\* self.update(codec.parse(msg)), r the result of parse
WireParsed(m, r) ==
    IF r.err # "" THEN [err |-> r.err, m |-> m]
    ELSE [err |-> "", m |-> [m EXCEPT !.d = Update(m.d, r.d)]]

\* FixMessage.from_wire(msg): [err, m]
FromWire(m, wire) == WireParsed(m, Parse(m.codec.c, wire, EQUALS, SOH))

\* self[9] = str(length); self[10] = self.checksum(raw_checksum)
SetLenChk(d, lc) ==
    SetItem(SetItem(d, 9, StrVal(IntToDigits(lc[1]))), 10, StrVal(Checksum(lc[2])))

\* tags 9 and 10 are written only where the message does not hold them
SetLenAndChksumKeep(d) ==
    LET lc == LenAndChsum(d, FALSE)
        d9 == IF Has(d, 9) THEN d ELSE SetItem(d, 9, StrVal(IntToDigits(lc[1])))
    IN  IF Has(d9, 10) THEN d9 ELSE SetItem(d9, 10, StrVal(Checksum(lc[2])))

\* FixMessage.set_len_and_chksum, on the dict
SetLenAndChksumDict(d) == SetLenChk(d, LenAndChsum(d, FALSE))

SetLenAndChksum(m) == [m EXCEPT !.d = SetLenAndChksumDict(m.d)]

\* the result of a call that serialises m1: [err, out, m], m the message as
\* the call leaves it
Sent(m1, r) == [err |-> r.err, out |-> r.out, m |-> m1]

\* return codec.serialise(self) of to_wire
Wired(m1) == Sent(m1, Serialise(m1.codec.c, m1.d, SOH, EQUALS))

\* FixMessage.to_wire()
ToWire(m) == Wired(SetLenAndChksum(m))

\* codec = Codec(spec=self.codec.spec); return codec.serialise(self, separator)
Output(m1, separator) ==
    Sent(m1, Serialise(NewCodec(m1.codec.c.spec, FALSE), m1.d, separator, EQUALS))

\* FixMessage.output_fix(separator, calc_checksum, remove_length=False)
OutputFix(m, separator, calc_checksum) ==
    Output(IF calc_checksum THEN SetLenAndChksum(m) ELSE m, separator)

\* only the body length is deleted
Strip9Only(d) == Discard(d, 9)

\* the loop of FixMessage.__eq__: del msg[9], del msg[10] where present
Strip910(d) == Discard(Discard(d, 9), 10)

\* the recipient is left out of the comparison
MsgEqNoRecipient(self, other) ==
    LET s1 == [self EXCEPT !.d = Strip910(self.d)]
        o1 == [other EXCEPT !.d = Strip910(other.d)]
    IN  [res |-> DictEq(s1.d, o1.d) /\ o1.time = s1.time,
         self |-> s1, other |-> o1]

\* FixMessage.__eq__(self, other), other a FixMessage: [res, self, other]
MsgEq(self, other) ==
    LET s1 == [self EXCEPT !.d = Strip910(self.d)]
        o1 == [other EXCEPT !.d = Strip910(other.d)]
    IN  [res |-> /\ DictEq(s1.d, o1.d)
                 /\ o1.time = s1.time
                 /\ o1.recipient = s1.recipient,
         self |-> s1, other |-> o1]

\* FixMessage.__ne__(self, other)
MsgNe(self, other) == ~DictEq(self.d, other.d) \/ other.time # self.time

\* the assignments of __copy__ after from_wire, n1 its result
CopyFilled(self, w, n0, n1) ==
    IF n1.err # "" THEN [err |-> n1.err, new |-> n0, self |-> w.m]
    ELSE [err |-> "",
          new |-> SetLenAndChksum(
                      [n1.m EXCEPT !.time = self.time, !.process = self.process,
                                   !.recipient = self.recipient,
                                   !.direction = self.direction,
                                   !.raw_message = self.raw_message]),
          self |-> w.m]

\* new_msg.from_wire(self.to_wire()), w the result of to_wire, n0 the new
\* message holding the codec of self
CopyWired(self, w, n0) ==
    IF w.err # "" THEN [err |-> w.err, new |-> n0, self |-> w.m]
    ELSE CopyFilled(self, w, n0, FromWire(n0, w.out))

\* FixMessage.__copy__: [err, new, self]; new has the object id oid
MsgCopy(self, oid, codec_id, clock) ==
    CopyWired(self, ToWire(self),
              [NewMessage(oid, codec_id, clock) EXCEPT !.codec = self.codec])

(***************************************************************************)
(* The state machine.  A peer composes a buffer token by token; the        *)
(* application loads it into a FixMessage with a codec of its choice and   *)
(* calls the codec and the facade on the result.                           *)
(***************************************************************************)

VARIABLES
    fam,      \* the family of buffers the peer composes (index of Families)
    buff,     \* the tokens of the buffer composed so far
    pc,       \* the position of the application
    a,        \* the FixMessage the application loaded
    b,        \* a second FixMessage: a re-parse, a copy or a second load
    out,      \* [err, out]: the result of the last serialise / to_wire
    res,      \* the result of the last comparison
    clock,    \* datetime.utcnow()
    nobj,     \* the number of objects created so far
    tag54,    \* the FixTag of tag 54 of the specification
    ret,      \* the last call on tag54 and its outcome
    tags,     \* the TagsReference of the specification
    found,    \* the last call on tags and its outcome
    th,       \* the two threads calling the shared codec: the call each
              \* makes, where it stands and what it returned
    run       \* the call of Codec.parse that is under way, statement by
              \* statement: its generator, its _process_group frames, its
              \* message and the deliveries of the generator

msgvars == <<fam, buff, pc, a, b, out, res, clock, nobj>>
refvars == <<tag54, ret, tags, found, th, run>>
vars ==
    <<fam, buff, pc, a, b, out, res, clock, nobj, tag54, ret, tags, found, mt,
      th, run>>

\* the value a peer gives the token at position n: the digit n, a letter
\* from position 10 on
PosValue(n) == IF n < 10 THEN <<ZERO + n>> ELSE <<87 + n>>
Tok(tag, codes) == <<tag, codes>>

\* A family: the prefix every buffer of the family starts with, the tags the
\* peer may append ("p": with the position as value, "z": with value 0, "t":
\* with the message type "B" as value) and
\* the codec the application loads the buffer with.
Families ==
    << \* 1: the start of a group, an empty group, member, body and trailer tags
       [hdr |-> <<Tok(8, <<70>>), Tok(9, <<50>>), Tok(35, MsgTypeB)>>,
        alpha |-> {<<215, "p">>, <<215, "z">>, <<216, "p">>, <<217, "p">>,
                   <<58, "p">>, <<10, "p">>},
        spec |-> TRUE, no_groups |-> FALSE],
       \* 2: inside the first repetition of group 215
       [hdr |-> <<Tok(8, <<70>>), Tok(35, MsgTypeB), Tok(215, <<50>>),
                  Tok(216, <<52>>)>>,
        alpha |-> {<<216, "p">>, <<217, "p">>, <<683, "p">>, <<683, "z">>,
                   <<688, "p">>, <<58, "p">>},
        spec |-> TRUE, no_groups |-> FALSE],
       \* 3: inside the first repetition of sub-group 683 of group 215
       [hdr |-> <<Tok(8, <<70>>), Tok(35, MsgTypeB), Tok(215, <<50>>),
                  Tok(216, <<52>>), Tok(683, <<49>>), Tok(688, <<54>>)>>,
        alpha |-> {<<688, "p">>, <<689, "p">>, <<216, "p">>, <<217, "p">>,
                   <<670, "p">>, <<671, "p">>},
        spec |-> TRUE, no_groups |-> FALSE],
       \* 4: body tags, component tags, tags the spec does not know, trailer
       [hdr |-> <<Tok(8, <<70>>), Tok(35, MsgTypeB)>>,
        alpha |-> {<<58, "p">>, <<22, "p">>, <<59, "p">>, <<777, "p">>,
                   <<500, "p">>, <<93, "p">>},
        spec |-> TRUE, no_groups |-> FALSE],
       \* 5: a codec without spec
       [hdr |-> <<Tok(9, <<50>>), Tok(35, MsgTypeB)>>,
        alpha |-> {<<8, "p">>, <<49, "p">>, <<1128, "p">>, <<215, "p">>,
                   <<58, "p">>, <<93, "p">>, <<89, "p">>, <<10, "p">>},
        spec |-> FALSE, no_groups |-> FALSE],
       \* 6: a message type the spec does not know
       [hdr |-> <<Tok(8, <<70>>), Tok(35, <<90>>)>>,
        alpha |-> {<<215, "p">>, <<216, "p">>, <<217, "p">>, <<58, "p">>},
        spec |-> TRUE, no_groups |-> FALSE],
       \* 7: a codec with a spec and no_groups
       [hdr |-> <<Tok(8, <<70>>), Tok(35, MsgTypeB)>>,
        alpha |-> {<<215, "p">>, <<216, "p">>, <<217, "p">>, <<58, "p">>},
        spec |-> TRUE, no_groups |-> TRUE],
       \* 8: tag 35 at the fourth place, behind it, or nowhere
       [hdr |-> <<Tok(8, <<70>>), Tok(9, <<50>>), Tok(49, <<51>>)>>,
        alpha |-> {<<35, "t">>, <<215, "p">>, <<216, "p">>, <<58, "p">>},
        spec |-> TRUE, no_groups |-> FALSE] >>

Family == Families[fam]

RECURSIVE Wire(_, _)
\* the bytes of a buffer holding the tokens toks, separator sep
Wire(toks, sep) ==
    IF toks = <<>> THEN <<>>
    ELSE IntToDigits(Head(toks)[1]) \o <<EQUALS>> \o Head(toks)[2] \o <<sep>>
           \o Wire(Tail(toks), sep)

Null == NewMessage(0, 0, 0)
NoOut == [err |-> "", out |-> <<>>]

\* the threads of the application
Threads == {1, 2}

\* a thread that has made no call: view holds the sorting keys its call was
\* handed by the sorting_key properties, computed the owners whose key it
\* computed itself
NoView == [sorting_key |-> EmptyMap, group_keys |-> EmptyMap]
IdleThread ==
    [pc |-> "idle", op |-> "", pending |-> <<>>, view |-> NoView,
     computed |-> {}, err |-> "", out |-> <<>>, d |-> <<>>]
Idlers == [t \in Threads |-> IdleThread]

\* the FixTag of tag 54 and the catalog as the specification is built
Tag54 == FixTag("Side", 54, <<<<"1", "BUY">>, <<"2", "SELL">>>>)
NoRet ==
    [op |-> "", name |-> Unset, value |-> Unset, err |-> "", val |-> Unset,
     before |-> Tag54]

Catalog == TagsReference(<<FixTag("Side", 54, << >>)>>)
NoFound ==
    [op |-> "", tag |-> 0, name |-> "", err |-> "", val |-> 0,
     before |-> Catalog]

\* no call of parse under way
NoPending == [some |-> FALSE, tag |-> None, contents |-> <<>>, last |-> NoToken]
NoRun ==
    [pc |-> "idle", toks |-> <<>>, g |-> NewGen, stack |-> <<>>, msg |-> <<>>,
     pending |-> NoPending, delivered |-> <<>>, calls |-> <<>>]

Init ==
    /\ fam \in DOMAIN Families
    /\ buff = Families[fam].hdr
    /\ pc = "compose"
    /\ a = Null
    /\ b = Null
    /\ out = NoOut
    /\ res = "none"
    /\ clock = 1
    /\ nobj = 0
    /\ tag54 = Tag54
    /\ ret = NoRet
    /\ tags = Catalog
    /\ found = NoFound
    /\ th = Idlers
    /\ run = NoRun
    /\ mt = TypeB

\* the peer appends a token
Feed(tk) ==
    /\ pc = "compose"
    /\ Len(buff) - Len(Family.hdr) < MaxBody
    /\ buff' = Append(buff, Tok(tk[1], IF tk[2] = "z" THEN <<ZERO>>
                                        ELSE IF tk[2] = "t" THEN MsgTypeB
                                        ELSE PosValue(Len(buff) + 1)))
    /\ UNCHANGED <<fam, pc, a, b, out, res, clock, nobj>>
    /\ UNCHANGED refvars
    /\ UNCHANGED mt

\* the call of load_fix returns r
Loads(r) ==
    /\ a' = r.m
    /\ pc' = IF r.err = "" THEN "loaded" ELSE "load_failed"
    /\ res' = r.err

\* a = FixMessage(); a.codec = Codec(spec, no_groups); a.load_fix(buffer)
Load ==
    /\ pc = "compose"
    /\ Loads(LoadFix([NewMessage(nobj + 1, nobj + 2, clock) EXCEPT
                         !.codec = [id |-> nobj + 3,
                                    c |-> NewCodec(Family.spec, Family.no_groups)]],
                     Wire(buff, SEMICOLON), SEMICOLON))
    /\ nobj' = nobj + 3
    /\ UNCHANGED <<fam, buff, b, out, clock>>
    /\ UNCHANGED refvars
    /\ UNCHANGED mt

\* out = a.codec.serialise(a)
SerialiseA ==
    /\ pc = "loaded"
    /\ out' = Serialise(a.codec.c, a.d, SOH, EQUALS)
    /\ mt' = AfterUnmap(a.codec.c, a.d)
    /\ pc' = "serialised"
    /\ UNCHANGED <<fam, buff, a, b, res, clock, nobj>>
    /\ UNCHANGED refvars

\* the call of parse returns r
Reparses(r) ==
    /\ b' = [NewMessage(nobj + 1, nobj + 2, clock) EXCEPT !.d = r.d]
    /\ pc' = IF r.err = "" THEN "reparsed" ELSE "reparse_failed"
    /\ res' = r.err

\* b = a.codec.parse(out)
Reparse ==
    /\ pc = "serialised"
    /\ out.err = ""
    /\ Reparses(Parse(a.codec.c, out.out, EQUALS, SOH))
    /\ nobj' = nobj + 2
    /\ UNCHANGED <<fam, buff, a, out, clock>>
    /\ UNCHANGED refvars
    /\ UNCHANGED mt

\* the call of to_wire or output_fix returns r
Sends(r) ==
    /\ out' = [err |-> r.err, out |-> r.out]
    /\ a' = r.m

\* out = a.to_wire()
ToWireA ==
    /\ pc = "loaded"
    /\ Sends(ToWire(a))
    /\ mt' = AfterUnmap(a.codec.c, SetLenAndChksumDict(a.d))
    /\ pc' = "wired"
    /\ UNCHANGED <<fam, buff, b, res, clock, nobj>>
    /\ UNCHANGED refvars

\* out = a.output_fix(';', calc_checksum)
OutputFixA(calc_checksum) ==
    /\ pc = "loaded"
    /\ Sends(OutputFix(a, SEMICOLON, calc_checksum))
    /\ mt' = AfterUnmap(NewCodec(a.codec.c.spec, FALSE),
                        IF calc_checksum THEN SetLenAndChksumDict(a.d) ELSE a.d)
    /\ pc' = IF calc_checksum THEN "output" ELSE "output_as_is"
    /\ UNCHANGED <<fam, buff, b, res, clock, nobj>>
    /\ UNCHANGED refvars

\* the call of copy returns r
Copies(r) ==
    /\ a' = r.self
    /\ b' = r.new
    /\ res' = r.err
    /\ pc' = IF r.err = "" THEN "copied" ELSE "copy_failed"

\* b = a.copy()
CopyA ==
    /\ pc = "loaded"
    /\ Copies(MsgCopy(a, nobj + 1, nobj + 2, clock))
    /\ mt' = AfterUnmap(a.codec.c, SetLenAndChksumDict(a.d))
    /\ nobj' = nobj + 2
    /\ UNCHANGED <<fam, buff, out, clock>>
    /\ UNCHANGED refvars

Next ==
    \/ \E tk \in Family.alpha : Feed(tk)
    \/ Load
    \/ SerialiseA
    \/ Reparse
    \/ ToWireA
    \/ \E calc_checksum \in BOOLEAN : OutputFixA(calc_checksum)
    \/ CopyA

Spec == Init /\ [][Next]_vars

(***************************************************************************)
(* A second state machine: the application holds two FixMessages loaded    *)
(* from the same buffer, sets tags, time and recipient on them and         *)
(* compares them.                                                          *)
(***************************************************************************)
MaxClock == 5

BufferM ==
    <<Tok(8, <<70>>), Tok(9, <<50>>), Tok(35, MsgTypeB), Tok(58, <<120>>),
      Tok(215, <<49>>), Tok(216, <<121>>), Tok(10, <<48, 48, 48>>)>>

\* FixMessage(); codec = Codec(spec); load_fix(BufferM), at the given time
Loaded(oid, time) ==
    LoadFix([NewMessage(oid, oid + 1, time) EXCEPT
               !.codec = [id |-> oid + 2, c |-> NewCodec(TRUE, FALSE)]],
            Wire(BufferM, SEMICOLON), SEMICOLON).m

InitMsg ==
    /\ mt = TypeB
    /\ fam = 1
    /\ buff = BufferM
    /\ pc = "edit"
    /\ a = Loaded(1, 1)
    /\ b = Loaded(4, 2)
    /\ out = NoOut
    /\ res = "none"
    /\ clock = 2
    /\ nobj = 6
    /\ tag54 = Tag54
    /\ ret = NoRet
    /\ tags = Catalog
    /\ found = NoFound
    /\ th = Idlers
    /\ run = NoRun

Who(who) == IF who = "a" THEN a ELSE b

\* the message who is replaced by m, time passes
Becomes(who, m) ==
    /\ a' = IF who = "a" THEN m ELSE a
    /\ b' = IF who = "b" THEN m ELSE b
    /\ clock' = clock + 1
    /\ UNCHANGED <<fam, buff, pc, out, res, nobj>>
    /\ UNCHANGED refvars
    /\ UNCHANGED mt

\* msg[tag] = value
SetTag(who, tag, value) ==
    /\ pc = "edit" /\ clock < MaxClock
    /\ Becomes(who, [Who(who) EXCEPT !.d = SetItem(@, tag, StrVal(value))])

\* msg.recipient = r
SetRecipient(who, r) ==
    /\ pc = "edit" /\ clock < MaxClock
    /\ Becomes(who, [Who(who) EXCEPT !.recipient = r])

\* msg.time = t
SetTime(who, t) ==
    /\ pc = "edit" /\ clock < MaxClock
    /\ Becomes(who, [Who(who) EXCEPT !.time = t])

\* the comparison returns r
Compares(r) ==
    /\ a' = r.self
    /\ b' = r.other
    /\ res' = IF r.res THEN "True" ELSE "False"

\* res = (a == b), the first comparison or the one after a != b
Eq ==
    /\ pc \in {"edit", "compared_ne"}
    /\ Compares(MsgEq(a, b))
    /\ pc' = "compared"
    /\ UNCHANGED <<fam, buff, out, clock, nobj>>
    /\ UNCHANGED refvars
    /\ UNCHANGED mt

\* res = (a != b), the first comparison or the one after a == b
Ne ==
    /\ pc \in {"edit", "compared"}
    /\ res' = IF MsgNe(a, b) THEN "True" ELSE "False"
    /\ pc' = "compared_ne"
    /\ UNCHANGED <<fam, buff, a, b, out, clock, nobj>>
    /\ UNCHANGED refvars
    /\ UNCHANGED mt

NextMsg ==
    \/ \E who \in {"a", "b"}, tag \in {9, 10, 58}, value \in {<<120>>, <<122>>} :
          SetTag(who, tag, value)
    \/ \E who \in {"a", "b"}, r \in {"", "peer"} : SetRecipient(who, r)
    \/ \E who \in {"a", "b"}, t \in 1..2 : SetTime(who, t)
    \/ Eq
    \/ Ne

SpecMsg == InitMsg /\ [][NextMsg]_vars

\* the application has loaded nothing: the message variables at rest
Idle ==
    /\ fam = 1
    /\ buff = Families[1].hdr
    /\ pc = "compose"
    /\ a = Null
    /\ b = Null
    /\ out = NoOut
    /\ res = "none"
    /\ clock = 1
    /\ nobj = 0

(***************************************************************************)
(* A specification changed at run time: the application loads a buffer,    *)
(* adds a group to message type "B" and loads the buffer again with a      *)
(* second codec on the same specification.                                 *)
(***************************************************************************)
CountTagArgs == {500, 58}
CompositionArgs == {<<Field(777)>>, <<Field(777), Field(22)>>}
InsertAtArgs == {None, 2}

InitChange ==
    /\ mt = TypeB
    /\ fam = 4
    /\ buff = Families[4].hdr
    /\ pc = "compose"
    /\ a = Null
    /\ b = Null
    /\ out = NoOut
    /\ res = "none"
    /\ clock = 1
    /\ nobj = 0
    /\ tag54 = Tag54
    /\ ret = NoRet
    /\ tags = Catalog
    /\ found = NoFound
    /\ th = Idlers
    /\ run = NoRun

\* spec.msg_types[b'B'].add_group(count_tag, composition, insert_at)
AddGroupA(count_tag, composition, insert_at) ==
    /\ pc = "loaded"
    /\ mt' = AddGroup(mt, count_tag, composition, insert_at)
    /\ pc' = "changed"
    /\ UNCHANGED <<fam, buff, a, b, out, res, clock, nobj>>
    /\ UNCHANGED refvars

\* the call of load_fix on the second message returns r
LoadsAfter(r) ==
    /\ b' = r.m
    /\ pc' = IF r.err = "" THEN "loaded_after" ELSE "load_after_failed"
    /\ res' = r.err

\* b = FixMessage(); b.codec = Codec(spec); b.load_fix(buffer)
LoadAfter ==
    /\ pc = "changed"
    /\ LoadsAfter(LoadFix([NewMessage(nobj + 1, nobj + 2, clock) EXCEPT
                              !.codec = [id |-> nobj + 3,
                                         c |-> NewCodec(TRUE, FALSE)]],
                          Wire(buff, SEMICOLON), SEMICOLON))
    /\ nobj' = nobj + 3
    /\ UNCHANGED <<fam, buff, a, out, clock>>
    /\ UNCHANGED refvars
    /\ UNCHANGED mt

NextChange ==
    \/ \E tk \in Family.alpha : Feed(tk)
    \/ Load
    \/ \E count_tag \in CountTagArgs, composition \in CompositionArgs,
          insert_at \in InsertAtArgs : AddGroupA(count_tag, composition, insert_at)
    \/ LoadAfter

SpecChange == InitChange /\ [][NextChange]_vars

(***************************************************************************)
(* Two threads calling one Codec on one specification.  A thread switch    *)
(* can fall between any two reads or writes of a shared attribute: a call  *)
(* of serialise reads the sorting key of the message type and of every     *)
(* Group it sorts a member of through the sorting_key property, which      *)
(* tests self._sorting_key, computes and assigns the key when there is     *)
(* none, and returns self._sorting_key; a call of parse reads the groups   *)
(* of the message type once.  An owner is 35 for the message type and the  *)
(* count tag for a Group.                                                  *)
(***************************************************************************)
MaxShared == 1

InitConc ==
    /\ Init
    /\ fam \in {2, 3}

\* the peer appends a token to the buffer the threads will share
FeedShared(tk) ==
    /\ Len(buff) - Len(Family.hdr) < MaxShared
    /\ Feed(tk)

\* the sorting_key properties a call of serialise reads, in order
Owners(u) == IF u.top THEN <<35>> \o u.seen ELSE <<>>

\* self._sorting_key of the owner: the key, or the empty map for None
KeyHeld(m, owner) ==
    IF owner = 35 THEN m.sorting_key ELSE Get(m.group_keys, owner, EmptyMap)

\* self._sorting_key = key on the owner
KeyPut(m, owner, key) ==
    IF owner = 35 THEN [m EXCEPT !.sorting_key = key]
    ELSE [m EXCEPT !.group_keys = Put(@, owner, key)]

\* the ranks of a sorting key with their sign changed
Negated(key) == [k \in DOMAIN key |-> 0 - key[k]]

\* a computation that yields the opposite order when the owner was given a
\* key since the thread tested for one
KeyComputedLate(owner) ==
    IF Truthy(KeyHeld(mt, owner))
    THEN Negated(SortingKey(IF owner = 35 THEN CompB
                            ELSE GroupAt(mt.groups, owner)))
    ELSE SortingKey(IF owner = 35 THEN CompB ELSE GroupAt(mt.groups, owner))

\* _extract_sorting_key(self.composition, self._spec) of the owner
KeyComputed(owner) ==
    SortingKey(IF owner = 35 THEN CompB ELSE GroupAt(mt.groups, owner))

\* thread t calls a.codec.serialise(a)
CallSerialise(t) ==
    /\ pc = "loaded"
    /\ th[t].pc = "idle"
    /\ th' = [th EXCEPT ![t] = [@ EXCEPT
                !.op = "serialise", !.pc = "check",
                !.pending = Owners(UnmapIn(TypeB, a.codec.c, a.d))]]
    /\ UNCHANGED msgvars
    /\ UNCHANGED <<tag54, ret, tags, found, mt, run>>

\* thread t calls a.codec.parse(buffer)
CallParse(t) ==
    /\ pc = "loaded"
    /\ th[t].pc = "idle"
    /\ th' = [th EXCEPT ![t] = [@ EXCEPT !.op = "parse", !.pc = "parsing"]]
    /\ UNCHANGED msgvars
    /\ UNCHANGED <<tag54, ret, tags, found, mt, run>>

\* if not self._sorting_key: the thread finds a key and is handed it, or
\* finds none and goes on to compute it
Check(t) ==
    /\ th[t].pc = "check"
    /\ th[t].pending # <<>>
    /\ th' = [th EXCEPT ![t] =
                IF Truthy(KeyHeld(mt, Head(th[t].pending)))
                THEN [@ EXCEPT
                        !.view = KeyPut(@, Head(th[t].pending),
                                        KeyHeld(mt, Head(th[t].pending))),
                        !.pending = Tail(@)]
                ELSE [@ EXCEPT !.pc = "compute"]]
    /\ UNCHANGED msgvars
    /\ UNCHANGED <<tag54, ret, tags, found, mt, run>>

\* self._sorting_key = _extract_sorting_key(self.composition, self._spec)
Store(t) ==
    /\ th[t].pc = "compute"
    /\ mt' = KeyPut(mt, Head(th[t].pending), KeyComputed(Head(th[t].pending)))
    /\ th' = [th EXCEPT ![t] = [@ EXCEPT
                !.pc = "return",
                !.computed = @ \cup {Head(th[t].pending)}]]
    /\ UNCHANGED msgvars
    /\ UNCHANGED <<tag54, ret, tags, found, run>>

\* return self._sorting_key
Return(t) ==
    /\ th[t].pc = "return"
    /\ th' = [th EXCEPT ![t] = [@ EXCEPT
                !.view = KeyPut(@, Head(th[t].pending),
                                KeyHeld(mt, Head(th[t].pending))),
                !.pending = Tail(@),
                !.pc = "check"]]
    /\ UNCHANGED msgvars
    /\ UNCHANGED <<tag54, ret, tags, found, mt, run>>

\* the thread after serialise returned r
Returned(t, r) ==
    th' = [th EXCEPT ![t] = [@ EXCEPT !.pc = "done", !.err = r.err,
                                      !.out = r.out]]

\* serialise returns the bytes sorted by the keys the thread was handed
Finish(t) ==
    /\ th[t].pc = "check"
    /\ th[t].pending = <<>>
    /\ Returned(t, SerialiseIn([groups |-> mt.groups,
                                sorting_key |-> th[t].view.sorting_key,
                                group_keys |-> th[t].view.group_keys],
                               a.codec.c, a.d, SOH, EQUALS))
    /\ UNCHANGED msgvars
    /\ UNCHANGED <<tag54, ret, tags, found, mt, run>>

\* the thread after parse returned r
Parsed(t, r) ==
    th' = [th EXCEPT ![t] = [@ EXCEPT !.pc = "done", !.err = r.err, !.d = r.d]]

\* parse reads msg_type.groups and returns the fragment
FinishParse(t) ==
    /\ th[t].pc = "parsing"
    /\ Parsed(t, Parse(a.codec.c, Wire(buff, SOH), EQUALS, SOH))
    /\ UNCHANGED msgvars
    /\ UNCHANGED <<tag54, ret, tags, found, mt, run>>

NextConc ==
    \/ \E tk \in Family.alpha : FeedShared(tk)
    \/ Load
    \/ \E t \in Threads : CallSerialise(t)
    \/ \E t \in Threads : CallParse(t)
    \/ \E t \in Threads : Check(t)
    \/ \E t \in Threads : Store(t)
    \/ \E t \in Threads : Return(t)
    \/ \E t \in Threads : Finish(t)
    \/ \E t \in Threads : FinishParse(t)

SpecConc == InitConc /\ [][NextConc]_vars

(***************************************************************************)
(* The enum values of tag 54 under the calls of an application: any        *)
(* sequence of add_enum_value, del_enum_value, enum_by_name and            *)
(* enum_by_value.  ret records the last call: its arguments, its outcome   *)
(* and the FixTag it was made on.                                          *)
(***************************************************************************)
EnumNameArgs == {"BUY", "SELL", "SELLF"}
EnumValueArgs == {"1", "2", "SF"}

InitEnum ==
    /\ Idle
    /\ tag54 = Tag54
    /\ ret = NoRet
    /\ tags = Catalog
    /\ found = NoFound
    /\ th = Idlers
    /\ run = NoRun
    /\ mt = TypeB

\* tag54.add_enum_value(name, value)
AddEnum(name, value) ==
    /\ tag54' = AddEnumValue(tag54, name, value).t
    /\ ret' = [op |-> "add_enum_value", name |-> name, value |-> value,
               err |-> AddEnumValue(tag54, name, value).err, val |-> Unset,
               before |-> tag54]
    /\ UNCHANGED <<tags, found, th, run>>
    /\ UNCHANGED msgvars
    /\ UNCHANGED mt

\* tag54.del_enum_value(name=name, value=value)
DelEnum(name, value) ==
    /\ tag54' = DelEnumValue(tag54, name, value).t
    /\ ret' = [op |-> "del_enum_value", name |-> name, value |-> value,
               err |-> DelEnumValue(tag54, name, value).err, val |-> Unset,
               before |-> tag54]
    /\ UNCHANGED <<tags, found, th, run>>
    /\ UNCHANGED msgvars
    /\ UNCHANGED mt

\* tag54.enum_by_name(name)
EnumByNameA(name) ==
    /\ tag54' = EnumByName(tag54, name).t
    /\ ret' = [op |-> "enum_by_name", name |-> name, value |-> Unset,
               err |-> EnumByName(tag54, name).err,
               val |-> EnumByName(tag54, name).val, before |-> tag54]
    /\ UNCHANGED <<tags, found, th, run>>
    /\ UNCHANGED msgvars
    /\ UNCHANGED mt

\* tag54.enum_by_value(value)
EnumByValueA(value) ==
    /\ tag54' = EnumByValue(tag54, value).t
    /\ ret' = [op |-> "enum_by_value", name |-> Unset, value |-> value,
               err |-> EnumByValue(tag54, value).err,
               val |-> EnumByValue(tag54, value).val, before |-> tag54]
    /\ UNCHANGED <<tags, found, th, run>>
    /\ UNCHANGED msgvars
    /\ UNCHANGED mt

NextEnum ==
    \/ \E name \in EnumNameArgs, value \in EnumValueArgs : AddEnum(name, value)
    \/ \E name \in EnumNameArgs \cup {Unset},
          value \in EnumValueArgs \cup {Unset} : DelEnum(name, value)
    \/ \E name \in EnumNameArgs : EnumByNameA(name)
    \/ \E value \in EnumValueArgs : EnumByValueA(value)

SpecEnum == InitEnum /\ [][NextEnum]_vars

(***************************************************************************)
(* The tag catalog under the calls of an application: any sequence of      *)
(* add_tag, by_tag and by_name on a TagsReference built lazily or eagerly. *)
(* found records the last call.                                            *)
(***************************************************************************)
MaxTags == 3

TagNumberArgs == {54, 10001}
TagNameArgs == {"Side", "MyTagName"}

\* TagsReference(tags, eager=True): the lookups of None build both maps
Eager(r) == UNION {TagIndexed(r1) : r1 \in NameIndexed(r)}

InitTags ==
    /\ Idle
    /\ tag54 = Tag54
    /\ ret = NoRet
    /\ tags \in {Catalog} \cup Eager(Catalog)
    /\ found = NoFound
    /\ th = Idlers
    /\ run = NoRun
    /\ mt = TypeB

\* tags.add_tag(tag, name)
AddTagA(tag, name) ==
    /\ Len(tags.tags) < MaxTags
    /\ tags' = AddTag(tags, tag, name)
    /\ found' = [op |-> "add_tag", tag |-> tag, name |-> name, err |-> "",
                 val |-> Len(tags.tags) + 1, before |-> tags]
    /\ UNCHANGED <<tag54, ret, th, run>>
    /\ UNCHANGED msgvars
    /\ UNCHANGED mt

\* tags.by_name(name)
ByNameA(name) ==
    /\ \E r \in NameIndexed(tags) :
          /\ tags' = r
          /\ found' = [op |-> "by_name", tag |-> 0, name |-> name,
                       err |-> ByName(r, name).err,
                       val |-> ByName(r, name).val, before |-> tags]
    /\ UNCHANGED <<tag54, ret, th, run>>
    /\ UNCHANGED msgvars
    /\ UNCHANGED mt

\* tags.by_tag(tag)
ByTagA(tag) ==
    /\ \E r \in TagIndexed(tags) :
          /\ tags' = r
          /\ found' = [op |-> "by_tag", tag |-> tag, name |-> "",
                       err |-> ByTag(r, tag).err,
                       val |-> ByTag(r, tag).val, before |-> tags]
    /\ UNCHANGED <<tag54, ret, th, run>>
    /\ UNCHANGED msgvars
    /\ UNCHANGED mt

NextTags ==
    \/ \E tag \in TagNumberArgs, name \in TagNameArgs : AddTagA(tag, name)
    \/ \E name \in TagNameArgs : ByNameA(name)
    \/ \E tag \in TagNumberArgs : ByTagA(tag)

SpecTags == InitTags /\ [][NextTags]_vars


(***************************************************************************)
(* Codec.parse statement by statement: one step is one pass through the   *)
(* body of the for loop of Codec.parse or of _process_group, or the        *)
(* statements that follow the return of a _process_group call.  run.stack  *)
(* holds the frames of the _process_group calls, the innermost first;      *)
(* run.pending the value a call has returned and its caller has not yet    *)
(* taken; run.delivered how often the generator has yielded each token;    *)
(* run.calls the _process_group calls that have returned.                  *)
(***************************************************************************)
\* a call that takes the first tag from the declaration of the group
FrameDeclared(tag, group, at) ==
    [tag |-> tag, group |-> group, rep |-> <<>>, member |-> <<>>,
     first_tag |-> group[1].tag, taken |-> 0, at |-> at]

\* the locals of a call _process_group(tag, enumerator, msg_type, group);
\* taken counts the tokens the for loop of the call was handed, at is the
\* place of the count tag in the token stream
Frame(tag, group, at) ==
    [tag |-> tag, group |-> group, rep |-> <<>>, member |-> <<>>,
     first_tag |-> None, taken |-> 0, at |-> at]

\* the last member is left out of the group
PendingWithoutLast(f, member, last) ==
    [some |-> TRUE, tag |-> f.tag,
     contents |-> RGroup(f.rep, f.tag, f.first_tag),
     last |-> last]

\* rep_group.append(member); return rep_group, last
Pending(f, member, last) ==
    [some |-> TRUE, tag |-> f.tag,
     contents |-> RGroup(Append(f.rep, member), f.tag, f.first_tag),
     last |-> last]

\* the generator has yielded the token at r.g.i
Delivered(r) == [run.delivered EXCEPT ![r.g.i] = @ + 1]

\* the call of the frame f has returned p: stopped when its loop met the
\* end of the stream, upto the place of the last token it kept
Called(f, p, upto, stopped) ==
    Append(run.calls,
           [tag |-> f.tag, taken |-> f.taken, stopped |-> stopped,
            at |-> f.at, upto |-> upto, first_tag |-> p.contents.ft,
            members |-> Len(p.contents.v)])

InitParse ==
    /\ Init
    /\ fam \in {1, 2, 3}

\* the peer appends a token to a buffer no call was made on
FeedParse(tk) ==
    /\ run.pc = "idle"
    /\ Feed(tk)

\* Codec.parse up to the for loop: the matches, the lookahead and the test
\* for a flat result
Started(codec, matches) ==
    LET tagvals == [i \in DOMAIN matches |->
                      <<IntOrStr(matches[i][1]), matches[i][2]>>]
        looks == ~codec.no_groups /\ codec.spec
        begun == [NoRun EXCEPT !.toks = tagvals,
                               !.delivered = [i \in DOMAIN matches |-> 0]]
    IN  IF looks /\ Len(matches) < 4
        THEN [begun EXCEPT !.pc = "raised"]
        ELSE IF codec.no_groups \/ ~codec.spec
                  \/ ~LookAhead(matches, 1, NoType).known
        THEN [begun EXCEPT !.pc = "returned", !.msg = DictOf(<<>>, tagvals)]
        ELSE [begun EXCEPT !.pc = "top"]

\* Codec(spec, no_groups).parse(buffer, separator=';') is called
StartParse ==
    /\ pc = "compose"
    /\ run.pc = "idle"
    /\ run' = Started(NewCodec(Family.spec, Family.no_groups),
                      FindAll(Wire(buff, SEMICOLON), 1, EQUALS, SEMICOLON))
    /\ UNCHANGED msgvars
    /\ UNCHANGED <<tag54, ret, tags, found, th, mt>>

\* one pass of the for loop of Codec.parse, r what next(tagvals) gave
TopStepped(r) ==
    IF r.stop THEN [run EXCEPT !.pc = "returned", !.g = r.g]
    ELSE IF r.out[1] \notin DOMAIN mt.groups
    THEN [run EXCEPT !.g = r.g, !.delivered = Delivered(r),
                     !.msg = SetItem(@, r.out[1], StrVal(r.out[2]))]
    ELSE IF r.out[2] = <<ZERO>>
    THEN [run EXCEPT !.g = r.g, !.delivered = Delivered(r),
                     !.msg = SetItem(@, r.out[1], RGroup(<<>>, r.out[1], None))]
    ELSE [run EXCEPT !.g = r.g, !.delivered = Delivered(r),
                     !.stack = <<Frame(r.out[1], mt.groups[r.out[1]], r.g.i)>>]

TopStep ==
    /\ run.pc = "top"
    /\ run.stack = <<>>
    /\ ~run.pending.some
    /\ run' = TopStepped(GenNext(run.toks, run.g))
    /\ UNCHANGED msgvars
    /\ UNCHANGED <<tag54, ret, tags, found, th, mt>>

\* one pass of the for loop of _process_group in the frame f, f1 the frame
\* with the token counted
GroupStepped(f, f1, r) ==
    IF r.stop
    THEN [run EXCEPT !.g = r.g, !.stack = Tail(@),
                     !.pending = Pending(f, f.member, NoToken),
                     !.calls = Called(f, Pending(f, f.member, NoToken),
                                      Len(run.toks), TRUE)]
    ELSE CASE f.first_tag = None ->
                [run EXCEPT !.g = r.g, !.delivered = Delivered(r),
                   !.stack = <<[f1 EXCEPT
                                  !.member = SetItem(@, r.out[1], StrVal(r.out[2])),
                                  !.first_tag = r.out[1]]>> \o Tail(@)]
           [] f.first_tag # None /\ f.first_tag = r.out[1] ->
                [run EXCEPT !.g = r.g, !.delivered = Delivered(r),
                   !.stack = <<[f1 EXCEPT
                                  !.rep = Append(@, f.member),
                                  !.member = SetItem(<<>>, r.out[1],
                                                     StrVal(r.out[2]))]>>
                             \o Tail(@)]
           [] f.first_tag # None /\ f.first_tag # r.out[1]
                /\ r.out[1] \in TagsOf(f.group) ->
                [run EXCEPT !.g = r.g, !.delivered = Delivered(r),
                   !.stack = <<[f1 EXCEPT
                                  !.member = SetItem(@, r.out[1],
                                                     StrVal(r.out[2]))]>>
                             \o Tail(@)]
           [] f.first_tag # None /\ f.first_tag # r.out[1]
                /\ r.out[1] \notin TagsOf(f.group)
                /\ r.out[1] \in DOMAIN GroupsOf(f.group) ->
                [run EXCEPT !.g = r.g, !.delivered = Delivered(r),
                   !.stack = <<Frame(r.out[1], GroupsOf(f.group)[r.out[1]],
                                     r.g.i), f1>>
                             \o Tail(@)]
           [] OTHER ->
                [run EXCEPT !.g = r.g, !.delivered = Delivered(r),
                   !.stack = Tail(@),
                   !.pending = Pending(f, f.member, r.out),
                   !.calls = Called(f1, Pending(f, f.member, r.out),
                                    r.g.i - 1, FALSE)]

GroupStep ==
    /\ run.pc = "top"
    /\ run.stack # <<>>
    /\ ~run.pending.some
    /\ run' = GroupStepped(Head(run.stack),
                           [Head(run.stack) EXCEPT !.taken = @ + 1],
                           GenNext(run.toks, run.g))
    /\ UNCHANGED msgvars
    /\ UNCHANGED <<tag54, ret, tags, found, th, mt>>

\* the statements after contents, last_tagval = self._process_group(...) in
\* Codec.parse
TopReturned(p) ==
    [run EXCEPT !.msg = SetItem(@, p.tag, p.contents),
                !.g = IF p.last # NoToken THEN GenSend(run.toks, @, p.last)
                      ELSE @,
                !.pending = NoPending]

\* the statements after contents, last_tagval = self._process_group(...) in
\* _process_group, f the frame of the caller and m1 its member with the
\* contents stored
GroupReturned(p, f, m1) ==
    IF p.last = NoToken
    THEN [run EXCEPT !.stack = <<[f EXCEPT !.member = m1]>> \o Tail(@),
                     !.pending = NoPending]
    ELSE IF Trailing(p.last[1], f.first_tag, TagsOf(f.group)) = "first"
    THEN [run EXCEPT
            !.stack = <<[f EXCEPT
                           !.rep = Append(@, m1),
                           !.member = SetItem(<<>>, p.last[1],
                                              StrVal(p.last[2]))]>> \o Tail(@),
            !.pending = NoPending]
    ELSE IF Trailing(p.last[1], f.first_tag, TagsOf(f.group)) = "member"
    THEN [run EXCEPT
            !.stack = <<[f EXCEPT
                           !.member = SetItem(m1, p.last[1],
                                              StrVal(p.last[2]))]>> \o Tail(@),
            !.pending = NoPending]
    ELSE [run EXCEPT !.stack = Tail(@),
                     !.pending = Pending(f, m1, p.last),
                     !.calls = Called(f, Pending(f, m1, p.last),
                                      run.g.i - 1, FALSE)]

ReturnStep ==
    /\ run.pc = "top"
    /\ run.pending.some
    /\ run' = IF run.stack = <<>> THEN TopReturned(run.pending)
              ELSE GroupReturned(run.pending, Head(run.stack),
                                 SetItem(Head(run.stack).member, run.pending.tag,
                                         run.pending.contents))
    /\ UNCHANGED msgvars
    /\ UNCHANGED <<tag54, ret, tags, found, th, mt>>

\* a statement of the call under way
StepParse == TopStep \/ GroupStep \/ ReturnStep

NextParse ==
    \/ \E tk \in Family.alpha : FeedParse(tk)
    \/ StartParse
    \/ TopStep
    \/ GroupStep
    \/ ReturnStep

\* the call is one thread of control: while it has a next statement, the
\* statement is executed
SpecParse == InitParse /\ [][NextParse]_vars /\ WF_vars(StepParse)


(***************************************************************************)
(* Properties.                                                             *)
(***************************************************************************)
\* the codec of the family resolves the message type "B" for the buffer
ResolvedB ==
    /\ Family.spec /\ ~Family.no_groups
    /\ Len(buff) >= 4
    /\ \E i \in 1..4 : buff[i] = Tok(35, MsgTypeB)

TagsIn(toks) == {toks[i][1] : i \in DOMAIN toks}
SetMax(S) == CHOOSE x \in S : \A y \in S : y <= x

\* group 215 of message type B: its first tag and its declared member tags
Members215 == {216, 217}
First215 == Comp215[1].tag
SubGroups215 == {683, 670}

\* the index of the (only) token 215, and the last index of the run of
\* member tags that follows it
At215 == CHOOSE p \in DOMAIN buff : buff[p][1] = 215
End215 ==
    SetMax({q \in At215..Len(buff) :
              \A i \in (At215 + 1)..q : buff[i][1] \in Members215})

RECURSIVE Repetitions(_, _)
\* the repetitions of a run of tokens that starts with the tag first: each
\* starts at an occurrence of first
Repetitions(toks, first) ==
    IF toks = <<>> THEN <<>>
    ELSE LET rest == Repetitions(Tail(toks), first)
         IN  IF rest = <<>> \/ Head(Tail(toks))[1] = first
             THEN <<<<Head(toks)>>>> \o rest
             ELSE <<<<Head(toks)>> \o Head(rest)>> \o Tail(rest)

Reps215 == Repetitions(SubSeq(buff, At215 + 1, End215), First215)

\* the buffer holds count tag 215 once, with a value other than 0, followed
\* by repetitions that start with 216 and hold member tags only; no member
\* tag and no sub-group of the group stands outside the repetitions
C1_Pre ==
    /\ ResolvedB
    /\ Cardinality({p \in DOMAIN buff : buff[p][1] = 215}) = 1
    /\ buff[At215][2] # <<ZERO>>
    /\ End215 > At215
    /\ buff[At215 + 1][1] = First215
    /\ \A i \in DOMAIN buff :
          (i < At215 \/ i > End215) =>
              buff[i][1] \notin Members215 \cup SubGroups215

\* the paths [215, i, t] for the members i that hold t, in member order
RECURSIVE PathsInto(_, _, _, _)
PathsInto(count_tag, reps, index, t) ==
    IF index >= Len(reps) THEN <<>>
    ELSE (IF t \in TagsIn(reps[index + 1]) THEN <<<<count_tag, index, t>>>> ELSE <<>>)
         \o PathsInto(count_tag, reps, index + 1, t)

\* C1: parsing a buffer that holds count tag 215 (a group of the resolved
\* message type) with a non-zero value followed by k repetitions, each
\* starting with 216 and holding declared member tags only, stores under 215
\* a RepeatingGroup of exactly k members, member i holding the tag/value
\* pairs of repetition i; no member tag is stored at the top level and
\* find_all(t) yields the paths [215, i, t] of the members holding t, in
\* member order.
C1_GroupDetection ==
    (pc = "loaded" /\ C1_Pre) =>
        /\ Has(a.d, 215)
        /\ IsGroup(At(a.d, 215))
        /\ Len(At(a.d, 215).v) = Len(Reps215)
        /\ \A i \in DOMAIN Reps215 : At(a.d, 215).v[i] = DictOf(<<>>, Reps215[i])
        /\ \A t \in Members215 :
              /\ ~Has(a.d, t)
              /\ FindPaths(a.d, t) = PathsInto(215, Reps215, 0, t)

\* two repetitions, each holding 217, have been parsed
C1_Witness ==
    /\ pc = "loaded" /\ C1_Pre
    /\ Len(Reps215) = 2
    /\ FindPaths(a.d, 217) = <<<<215, 0, 217>>, <<215, 1, 217>>>>

\* the value of the last token of the buffer that has the tag
LastValue(tag) == buff[SetMax({i \in DOMAIN buff : buff[i][1] = tag})][2]

\* the message is the flat mapping of the buffer: every tag of the buffer,
\* group count tags and member tags included, is a top-level scalar holding
\* the value of its last occurrence
FlatOf(d) ==
    /\ Keys(d) = TagsIn(buff)
    /\ \A t \in TagsIn(buff) : At(d, t) = StrVal(LastValue(t))

\* tag 35 is not among the first four tokens, or its value (the last one
\* among them) names no message type of the spec
Unresolved35 ==
    LET first == 1..(IF Len(buff) < 4 THEN Len(buff) ELSE 4)
        at35 == {i \in first : buff[i][1] = 35}
    IN  at35 = {} \/ buff[SetMax(at35)][2] \notin DOMAIN MsgTypes

C2_Pre == ~Family.spec \/ Family.no_groups \/ Unresolved35

\* C2: with a codec that has no spec, or has no_groups set, or when tag 35
\* does not resolve to a message type of the spec, Codec.parse returns a
\* flat mapping without error: group count tags and member tags are
\* top-level scalars equal to their wire value, a repeated tag keeps the
\* value of its last occurrence.
C2_FlatWithoutError ==
    (pc \in {"loaded", "load_failed"} /\ C2_Pre) =>
        (pc = "loaded" /\ res = "" /\ FlatOf(a.d))

\* the part of C2 the code keeps: whenever parse returns, the mapping is flat
C2_FlatWhenReturned ==
    (pc = "loaded" /\ C2_Pre) => FlatOf(a.d)

RECURSIVE Flatten(_)
\* the tags of a composition in the order the spec declares them, the
\* members of a group directly after its count tag
Flatten(composition) ==
    IF composition = <<>> THEN <<>>
    ELSE LET e == Head(composition)
         IN  (CASE e.kind = "field" -> <<e.tag>>
                [] e.kind = "component" -> Flatten(e.comp)
                [] OTHER -> <<e.tag>> \o Flatten(e.comp))
             \o Flatten(Tail(composition))

RECURSIVE AllGroups(_)
\* the groups of a composition at every depth
AllGroups(composition) ==
    IF composition = <<>> THEN {}
    ELSE LET e == Head(composition)
         IN  (CASE e.kind = "field" -> {}
                [] e.kind = "component" -> AllGroups(e.comp)
                [] OTHER -> {e} \cup AllGroups(e.comp))
             \cup AllGroups(Tail(composition))

FlatB == SpecHeaderTags \o Flatten(CompB) \o SpecTrailerTags
GroupsB == AllGroups(CompB)
PosB(t) == CHOOSE i \in DOMAIN FlatB : FlatB[i] = t
Scope(G) == {Flatten(G.comp)[i] : i \in DOMAIN Flatten(G.comp)}
FirstField(G) == Flatten(G.comp)[1]

\* the buffer is in the order the spec declares for message type B: every
\* tag is declared; each token is followed by a tag declared later (a member
\* tag only inside its group) or by the first field of a group the token
\* belongs to, which starts the next repetition; a count other than 0 is
\* followed by the first field of its group
InSpecOrder(toks) ==
    /\ \A i \in DOMAIN toks : \E j \in DOMAIN FlatB : FlatB[j] = toks[i][1]
    /\ \A i \in 1..(Len(toks) - 1) :
          LET s == toks[i][1]
              t == toks[i + 1][1]
          IN  \/ /\ PosB(t) > PosB(s)
                 /\ \A G \in GroupsB :
                       t \in Scope(G) => (s = G.tag \/ s \in Scope(G))
              \/ \E G \in GroupsB : t = FirstField(G) /\ s \in Scope(G)
    /\ \A i \in DOMAIN toks : \A G \in GroupsB :
          toks[i][1] = G.tag =>
              IF toks[i][2] = <<ZERO>>
              THEN i = Len(toks) \/ toks[i + 1][1] \notin Scope(G)
              ELSE i < Len(toks) /\ toks[i + 1][1] = FirstField(G)

C3_Pre == ResolvedB /\ InSpecOrder(buff)

\* C3: for the message a parsed from a buffer (here one in spec order, with
\* groups and nested groups), serialise(a) succeeds and parse(serialise(a))
\* returns a mapping value-equal to a apart from tags 9 and 10.
C3_RoundTrip ==
    (pc \in {"serialised", "reparsed", "reparse_failed"} /\ C3_Pre) =>
        /\ out.err = ""
        /\ pc # "reparse_failed"
        /\ pc = "reparsed" => DictEq(Strip910(b.d), Strip910(a.d))

RECURSIVE FlattenTop(_)
\* the tags of one level of a composition in the order the spec declares
\* them: fields, the fields of components in place, group count tags
FlattenTop(composition) ==
    IF composition = <<>> THEN <<>>
    ELSE LET e == Head(composition)
         IN  (IF e.kind = "component" THEN FlattenTop(e.comp) ELSE <<e.tag>>)
             \o FlattenTop(Tail(composition))

\* the place of a tag in the order C4 states: header and body tags by their
\* place in the spec, then the tags the spec does not know by tag number,
\* then the trailer tags in trailer order
SpecPlace(composition, t) ==
    LET known == SpecHeaderTags \o FlattenTop(composition)
        at == {i \in DOMAIN known : known[i] = t}
        tr == {i \in DOMAIN SpecTrailerTags : SpecTrailerTags[i] = t}
    IN  IF tr # {} THEN 2000000 + (CHOOSE i \in tr : TRUE)
        ELSE IF at # {} THEN CHOOSE i \in at : \A j \in at : i <= j
        ELSE 1000000 + t

RECURSIVE InSpecPlace(_, _)
\* the tags of S by ascending SpecPlace
InSpecPlace(S, composition) ==
    IF S = {} THEN <<>>
    ELSE LET x == CHOOSE y \in S : \A z \in S :
                     SpecPlace(composition, y) <= SpecPlace(composition, z)
         IN  <<x>> \o InSpecPlace(S \ {x}, composition)

RECURSIVE StatedToks(_, _)
RECURSIVE StatedItems(_, _, _)
RECURSIVE StatedMembers(_, _)
\* the tokens C4 states for a mapping: its tags in spec place, a group as
\* its count tag with the number of members, then the members in turn
StatedToks(d, composition) ==
    StatedItems(d, InSpecPlace(Keys(d), composition), composition)
StatedItems(d, order, composition) ==
    IF order = <<>> THEN <<>>
    ELSE LET k == Head(order)
             e == At(d, k)
         IN  (IF IsGroup(e)
              THEN <<<<k, IntToDigits(Len(e.v))>>>>
                     \o StatedMembers(e.v, (CHOOSE G \in GroupsB : G.tag = k).comp)
              ELSE <<<<k, e.v>>>>)
             \o StatedItems(d, Tail(order), composition)
StatedMembers(members, composition) ==
    IF members = <<>> THEN <<>>
    ELSE StatedToks(Head(members), composition)
           \o StatedMembers(Tail(members), composition)

\* C4: with a spec whose message type resolves, serialise emits the header
\* tags in header order, the body tags in the spec order of the message
\* type, the tags the spec does not know in ascending tag number, the
\* trailer tags last; a group is emitted as its count tag with the number of
\* members, followed by each member's fields in the order of the group.
C4_SpecOrder ==
    (pc = "serialised" /\ ResolvedB /\ out.err = "") =>
        Tokenise(out.out, EQUALS, SOH) = StatedToks(a.d, CompB)

\* the place of a tag in the order C5 states: the tags of HEADER_TAGS by
\* their place in the list, then the other tags by tag number, then 93, 89, 10
ListPlace(t) ==
    LET at == {i \in DOMAIN HEADER_TAGS : HEADER_TAGS[i] = t}
        tr == {i \in DOMAIN TRAILER_TAGS : TRAILER_TAGS[i] = t}
    IN  IF tr # {} THEN 2000000 + (CHOOSE i \in tr : TRUE)
        ELSE IF at # {} THEN CHOOSE i \in at : \A j \in at : i <= j
        ELSE 1000000 + t

RECURSIVE InListPlace(_)
InListPlace(S) ==
    IF S = {} THEN <<>>
    ELSE LET x == CHOOSE y \in S : \A z \in S : ListPlace(y) <= ListPlace(z)
         IN  <<x>> \o InListPlace(S \ {x})

\* C5: without a spec serialise emits the tags of the built-in header list
\* in header order (8, 9, 35, 1128, 1156, 1129, 49, ...), then all other
\* tags in ascending tag number, then the trailer tags 93, 89 and 10 last.
C5_NoSpecOrder ==
    (pc = "serialised" /\ ~Family.spec /\ out.err = "") =>
        LET toks == Tokenise(out.out, EQUALS, SOH)
        IN  [i \in DOMAIN toks |-> toks[i][1]] = InListPlace(Keys(a.d))

\* the separator of the bytes in out
OutSep == IF pc = "wired" THEN SOH ELSE SEMICOLON
OutToks == Tokenise(out.out, EQUALS, OutSep)

RECURSIVE FieldBytes(_, _, _)
\* the number of bytes of the fields from to hi of toks, one byte for the
\* delimiter and one for the separator of each
FieldBytes(toks, from, hi) ==
    IF from > hi THEN 0
    ELSE Len(IntToDigits(toks[from][1])) + 1 + Len(toks[from][2]) + 1
           + FieldBytes(toks, from + 1, hi)

\* the index of the field of tag 9 in the output
OutAt9 == CHOOSE i \in DOMAIN OutToks :
              OutToks[i][1] = 9 /\ \A j \in 1..(i - 1) : OutToks[j][1] # 9

\* C7: the value set_len_and_chksum writes into tag 9 is the number of bytes
\* of the serialised output after the separator that ends the field of tag 9
\* and before the field of tag 10, the last field; groups and nested groups
\* included.
C7_BodyLength ==
    (pc \in {"wired", "output"} /\ out.err = "") =>
        At(a.d, 9).v = IntToDigits(FieldBytes(OutToks, OutAt9 + 1, Len(OutToks) - 1))

RECURSIVE FieldSum(_, _, _)
\* the sum of the bytes of the fields from to hi of toks, the delimiter "="
\* and the separator SOH of each included
FieldSum(toks, from, hi) ==
    IF from > hi THEN 0
    ELSE SeqSum(IntToDigits(toks[from][1])) + EQUALS + SeqSum(toks[from][2]) + SOH
           + FieldSum(toks, from + 1, hi)

\* n as three decimal digits, zero-padded
ThreeDigits(n) ==
    LET d == IntToDigits(n)
    IN  IF Len(d) = 1 THEN <<ZERO, ZERO>> \o d
        ELSE IF Len(d) = 2 THEN <<ZERO>> \o d
        ELSE d

\* C8: the value set_len_and_chksum writes into tag 10 is the sum, modulo
\* 256 and rendered as three zero-padded decimal digits, of all bytes of
\* the SOH-separated serialisation that precede the field of tag 10: the
\* fields of tags 8 and 9, every other field, every count and member field.
C8_Checksum ==
    (pc \in {"wired", "output"} /\ out.err = "") =>
        At(a.d, 10).v = ThreeDigits(FieldSum(OutToks, 1, Len(OutToks) - 1) % 256)

\* C10: for a message parsed from a buffer (here one in spec order), copy()
\* returns a distinct message object that compares equal to the original,
\* with the same time, process, recipient, direction and raw_message and the
\* very same codec object.
C10_Copy ==
    (pc \in {"copied", "copy_failed"} /\ C3_Pre) =>
        /\ pc = "copied"
        /\ b.oid # a.oid
        /\ MsgEq(b, a).res
        /\ b.time = a.time /\ b.process = a.process
        /\ b.recipient = a.recipient /\ b.direction = a.direction
        /\ b.raw_message = a.raw_message
        /\ b.codec.id = a.codec.id

\* the two mappings hold the same tags with equal values, tags 9 and 10 aside
SameBut910(x, y) ==
    \A k \in (Keys(x) \cup Keys(y)) \ {9, 10} :
        Has(x, k) /\ Has(y, k) /\ EntryEq(At(x, k), At(y, k))

AddedEnum == ret.op = "add_enum_value" /\ ret.err = ""

\* C11: after a successful add_enum_value(name, value), whatever the state
\* of the two lazily built maps was, enum_by_value(value) returns name and
\* enum_by_name(name) returns value; an add_enum_value with a registered
\* name fails with KeyError and leaves the values as they were; the names
\* of the values of a tag are pairwise different.
C11_AddEnum ==
    /\ AddedEnum =>
          /\ EnumByValue(tag54, ret.value).err = ""
          /\ EnumByValue(tag54, ret.value).val = ret.name
          /\ EnumByName(tag54, ret.name).err = ""
          /\ EnumByName(tag54, ret.name).val = ret.value
    /\ (ret.op = "add_enum_value"
          /\ ret.name \in EnumNames(ret.before.values)) =>
             /\ ret.err = "KeyError"
             /\ tag54.values = ret.before.values
    /\ \A i, j \in DOMAIN tag54.values :
          i # j => tag54.values[i][2] # tag54.values[j][2]

\* a value was added to a tag whose map by value was built and whose map by
\* name was not, under a wire value another name already has
C11_Witness ==
    /\ AddedEnum
    /\ Truthy(ret.before.val_by_val)
    /\ ~Truthy(ret.before.val_by_name)
    /\ ret.value \in EnumValues(ret.before.values)
    /\ Len(tag54.values) = 3

EnumPairs(values) == {values[i] : i \in DOMAIN values}

\* C12: del_enum_value with neither name nor value fails; with a name
\* registered under another value than the one given it fails with
\* ValueError; with a name, or with only a value, that is not registered it
\* fails with KeyError; with a registered pair it succeeds; a failing call
\* leaves the values as they were.
C12_DelEnum ==
    ret.op = "del_enum_value" =>
       /\ (ret.name = Unset /\ ret.value = Unset) => ret.err = "TypeError"
       /\ (ret.name # Unset /\ ret.value # Unset
             /\ ret.name \in EnumNames(ret.before.values)
             /\ <<ret.value, ret.name>> \notin EnumPairs(ret.before.values))
             => ret.err = "ValueError"
       /\ (ret.name # Unset /\ ret.name \notin EnumNames(ret.before.values))
             => ret.err = "KeyError"
       /\ (ret.name = Unset /\ ret.value # Unset
             /\ ret.value \notin EnumValues(ret.before.values))
             => ret.err = "KeyError"
       /\ (ret.name # Unset /\ ret.value # Unset
             /\ <<ret.value, ret.name>> \in EnumPairs(ret.before.values))
             => ret.err = ""
       /\ ret.err # "" => tag54.values = ret.before.values


(***************************************************************************)
(* The tag catalog                                                         *)
(***************************************************************************)
\* every add_tag so far was given a number and a name no tag had
FreshAdds(r) ==
    \A i, j \in DOMAIN r.tags :
       i # j => r.tags[i].tag # r.tags[j].tag /\ r.tags[i].name # r.tags[j].name

\* C13: after add_tag calls with unregistered numbers and names, interleaved
\* with by_tag and by_name, by_tag(n) and by_name(s) return the tag
\* registered under n and s for every tag of the catalog, whether a map was
\* built before the add or not; a built map is the map derived from the
\* current set of tags.
C13_Catalog ==
    FreshAdds(tags) =>
       /\ \A i \in DOMAIN tags.tags :
             /\ \A r \in TagIndexed(tags) :
                   /\ ByTag(r, tags.tags[i].tag).err = ""
                   /\ ByTag(r, tags.tags[i].tag).val = i
             /\ \A r \in NameIndexed(tags) :
                   /\ ByName(r, tags.tags[i].name).err = ""
                   /\ ByName(r, tags.tags[i].name).val = i
       /\ Truthy(tags.by_tag) => tags.by_tag \in ByTagMaps(tags.tags)
       /\ Truthy(tags.by_name) => tags.by_name \in ByNameMaps(tags.tags)
       /\ (found.op = "by_tag" /\ found.err = "")
             => tags.tags[found.val].tag = found.tag
       /\ (found.op = "by_name" /\ found.err = "")
             => tags.tags[found.val].name = found.name

\* a tag was added to a catalog whose map by number was built and whose map
\* by name was not, and was then looked up by its name
C13_Witness ==
    /\ FreshAdds(tags)
    /\ found.op = "by_name"
    /\ found.val = 2
    /\ ~Truthy(found.before.by_name)
    /\ Truthy(found.before.by_tag)
    /\ found.before.by_tag[tags.tags[2].tag] = 2


(***************************************************************************)
(* Groups added to a message type                                          *)
(***************************************************************************)
\* the count tags add_group gave message type B
Added == (DOMAIN mt.groups) \ (DOMAIN GroupsOf(CompB))

\* token i follows a token of the count tag through member tags only
InRun(i, count_tag, members) ==
    \E p \in 1..(i - 1) :
       /\ buff[p][1] = count_tag
       /\ \A q \in (p + 1)..i : buff[q][1] \in members

\* C14: after add_group(count_tag, composition) on message type B the count
\* tag is a group of the type, and a parse of a message of that type, with
\* a codec on the same specification, stores a
\* RepeatingGroup under count_tag and no member tag that follows the count
\* tag at the top level, while the fragment parsed before the call still
\* holds the count tag and the member tags as top-level scalars with the
\* value of their last occurrence.
C14_AddGroup ==
    pc = "loaded_after" =>
       /\ Added # {}
       /\ FlatOf(a.d)
       /\ \A count_tag \in Added :
          /\ count_tag \in DOMAIN MsgTypeGet(MsgTypeB).groups
          /\ count_tag \in TagsIn(buff) =>
                /\ Has(b.d, count_tag)
                /\ IsGroup(At(b.d, count_tag))
                /\ At(b.d, count_tag).nt = count_tag
          /\ \A t \in TagsOf(mt.groups[count_tag]) :
                (\A i \in DOMAIN buff :
                    buff[i][1] = t =>
                       InRun(i, count_tag, TagsOf(mt.groups[count_tag])))
                   => ~Has(b.d, t)

\* the buffer held the count tag and two repetitions of the added group
C14_Witness ==
    /\ pc = "loaded_after"
    /\ \E count_tag \in Added :
          /\ Has(a.d, count_tag)
          /\ Has(a.d, 777)
          /\ Has(b.d, count_tag)
          /\ IsGroup(At(b.d, count_tag))
          /\ Len(At(b.d, count_tag).v) = 2
          /\ ~Has(b.d, 777)


(***************************************************************************)
(* Searches through repeating groups                                       *)
(***************************************************************************)
RECURSIVE Resolves(_, _)
\* the path leads, key by key, from the fragment d to an entry: a tag of a
\* fragment, then the index of a member of the group under it, and so on
Resolves(d, path) ==
    /\ path # <<>>
    /\ Has(d, path[1])
    /\ \/ Len(path) = 1
       \/ /\ Len(path) >= 3
          /\ IsGroup(At(d, path[1]))
          /\ path[2] \in 0..(Len(At(d, path[1]).v) - 1)
          /\ Resolves(At(d, path[1]).v[path[2] + 1], SubSeq(path, 3, Len(path)))

RECURSIVE Occurrences(_, _)
\* the fragments, d and the members of its groups at any depth, holding tag
Occurrences(d, tag) ==
    (IF Has(d, tag) THEN 1 ELSE 0)
    + SeqSum([i \in DOMAIN d |->
                IF IsGroup(d[i].e)
                THEN SeqSum([j \in DOMAIN d[i].e.v |->
                               Occurrences(d[i].e.v[j], tag)])
                ELSE 0])

\* the tags searched for: those of the buffer and one no buffer holds
Searched == TagsIn(buff) \cup {999}

\* paths, the paths find_all(t) yields on d: each ends in t and resolves in
\* d, there is one for every fragment holding t and none twice, and they
\* agree with anywhere(t) and all_tags()
PathsSound(d, t, paths) ==
    /\ \A i \in DOMAIN paths :
          /\ paths[i][Len(paths[i])] = t
          /\ Resolves(d, paths[i])
          /\ \A j \in DOMAIN paths : i # j => paths[i] # paths[j]
    /\ Len(paths) = Occurrences(d, t)
    /\ Anywhere(d, t) <=> paths # <<>>
    /\ Anywhere(d, t) <=> t \in AllTags(d)

\* C15: for a message with FixFragment members and every tag t, find_all(t)
\* yields paths that end in t and resolve key by key to an entry of the
\* message, one path for every fragment holding t and no path twice; and
\* anywhere(t) holds exactly when find_all(t) yields a path, exactly when
\* t is in all_tags().  The messages are those load_fix built and those
\* to_wire has set tags 9 and 10 of (output_fix and copy set them the same
\* way, no other call changes the message).
C15_FindAll ==
    pc \in {"loaded", "wired"} =>
       \A t \in Searched : PathsSound(a.d, t, FindPaths(a.d, t))

\* a tag was found in a member of a group nested in a member of a group
C15_Witness ==
    /\ pc = "loaded"
    /\ \E t \in Searched :
          /\ ~Has(a.d, t)
          /\ \E i \in DOMAIN FindPaths(a.d, t) : Len(FindPaths(a.d, t)[i]) = 5


(***************************************************************************)
(* Empty groups                                                            *)
(***************************************************************************)
\* token i states a zero count of group 215 at the top level: no group was
\* opened before it
TopZero(i) ==
    /\ ResolvedB
    /\ buff[i] = Tok(215, <<ZERO>>)
    /\ \A p \in 1..(i - 1) : buff[p][1] \notin {215, 146}

\* token i states a zero count of the sub-group 683 inside a repetition of
\* group 215: 215 is open since token 3 and holds member tags only so far
NestedZero(i) ==
    /\ ResolvedB
    /\ i > 4
    /\ buff[3][1] = 215 /\ buff[3][2] # <<ZERO>> /\ buff[4][1] = 216
    /\ buff[i] = Tok(683, <<ZERO>>)
    /\ \A p \in 5..(i - 1) : buff[p][1] \in Members215

\* the repetition of 215 that token i belongs to, under NestedZero(i)
RepOf(i) == Cardinality({p \in 4..i : buff[p][1] = 216})

Later(i, tag) == \E q \in (i + 1)..Len(buff) : buff[q][1] = tag

\* C16: a count tag of a known group with the value 0, at the top level or
\* inside a repetition of a group, stores an empty RepeatingGroup, and the
\* token that follows is handled in the enclosing scope: after a top-level
\* 215=0 it is a top-level entry, after 683=0 inside a repetition of 215 a
\* member tag goes into that repetition and 216 opens the next one.
C16_ZeroCount ==
    pc = "loaded" =>
       \A i \in DOMAIN buff :
          /\ (TopZero(i) /\ ~Later(i, 215)) =>
                /\ Has(a.d, 215)
                /\ IsGroup(At(a.d, 215))
                /\ At(a.d, 215).v = <<>>
                /\ (i < Len(buff) /\ ~Later(i + 1, buff[i + 1][1])) =>
                      /\ Has(a.d, buff[i + 1][1])
                      /\ At(a.d, buff[i + 1][1]) = StrVal(buff[i + 1][2])
          /\ (NestedZero(i) /\ ~Later(i, 683)) =>
                /\ Has(a.d, 215)
                /\ IsGroup(At(a.d, 215))
                /\ Len(At(a.d, 215).v) >= RepOf(i)
                /\ Has(At(a.d, 215).v[RepOf(i)], 683)
                /\ IsGroup(At(At(a.d, 215).v[RepOf(i)], 683))
                /\ At(At(a.d, 215).v[RepOf(i)], 683).v = <<>>
                /\ (i < Len(buff) /\ buff[i + 1][1] = 217
                      /\ ~Later(i + 1, 217)) =>
                      /\ Has(At(a.d, 215).v[RepOf(i)], 217)
                      /\ At(At(a.d, 215).v[RepOf(i)], 217) = StrVal(buff[i + 1][2])
                /\ (i < Len(buff) /\ buff[i + 1][1] = 216) =>
                      Len(At(a.d, 215).v) > RepOf(i)

\* C16 at the top level only: the part of the statement the parser keeps
C16_TopLevelZero ==
    pc = "loaded" =>
       \A i \in DOMAIN buff :
          (TopZero(i) /\ ~Later(i, 215)) =>
             /\ Has(a.d, 215)
             /\ IsGroup(At(a.d, 215))
             /\ At(a.d, 215).v = <<>>
             /\ (i < Len(buff) /\ ~Later(i + 1, buff[i + 1][1])) =>
                   /\ Has(a.d, buff[i + 1][1])
                   /\ At(a.d, buff[i + 1][1]) = StrVal(buff[i + 1][2])


(***************************************************************************)
(* Serialising                                                             *)
(***************************************************************************)
\* the mapping load_fix gave the message a for the buffer
AsLoaded ==
    LoadFix([NewMessage(0, 0, 0) EXCEPT !.codec = a.codec],
            Wire(buff, SEMICOLON), SEMICOLON).m.d

\* the number of fields of the tag in the bytes serialise returned
FieldsOf(tag) ==
    Cardinality({i \in DOMAIN Tokenise(out.out, EQUALS, SOH) :
                   Tokenise(out.out, EQUALS, SOH)[i][1] = tag})

\* C17: Codec.serialise leaves the fragment, its groups and their members
\* as they were and writes no tag 9 or 10: the bytes hold a field 9 or 10
\* only for a fragment that holds the tag; a second serialise of the same
\* fragment returns the same bytes as the first, the one that computed and
\* stored the sorting keys, and stores nothing more.
C17_SerialisePure ==
    pc = "serialised" =>
       /\ a.d = AsLoaded
       /\ out.err = "" =>
             /\ FieldsOf(9) = Occurrences(a.d, 9)
             /\ FieldsOf(10) = Occurrences(a.d, 10)
       /\ Serialise(a.codec.c, a.d, SOH, EQUALS) = out
       /\ AfterUnmap(a.codec.c, a.d) = mt

\* the first serialise stored the sorting keys of the message type, of
\* group 215 and of the sub-group 683, for a message without tags 9 and 10
C17_Witness ==
    /\ pc = "serialised"
    /\ out.err = ""
    /\ Truthy(mt.sorting_key)
    /\ {215, 683} \subseteq DOMAIN mt.group_keys
    /\ ~Anywhere(a.d, 9)
    /\ ~Anywhere(a.d, 10)
    /\ Cardinality(Keys(a.d)) > 3


(***************************************************************************)
(* Concurrent calls on a shared codec                                      *)
(***************************************************************************)
\* C18: of two calls of parse or serialise running concurrently on one
\* Codec and one specification that is not changed, each returns what it
\* returns when it runs alone on the specification as built, in every
\* interleaving, also when both find a sorting key not computed and both
\* compute and store it.
C18_SharedCodec ==
    \A t \in Threads :
       th[t].pc = "done" =>
          /\ th[t].op = "serialise" =>
                [err |-> th[t].err, out |-> th[t].out]
                   = SerialiseIn(TypeB, a.codec.c, a.d, SOH, EQUALS)
          /\ th[t].op = "parse" =>
                [err |-> th[t].err, d |-> th[t].d]
                   = Parse(a.codec.c, Wire(buff, SOH), EQUALS, SOH)

\* both threads serialised a message with a nested group, and both computed
\* the sorting key of the message type and of group 215
C18_Witness ==
    /\ \A t \in Threads :
          /\ th[t].pc = "done"
          /\ th[t].op = "serialise"
          /\ th[t].err = ""
          /\ {35, 215} \subseteq th[t].computed
    /\ 683 \in DOMAIN mt.group_keys


(***************************************************************************)
(* The token an embedded group hands back                                  *)
(***************************************************************************)
\* the buffer opens group 215, its first repetition and the sub-group 683
\* in it (tokens 3 to 6); token p is the first that 683 does not take
HandedBack(p) ==
    /\ ResolvedB
    /\ Len(buff) >= p /\ p > 6
    /\ buff[3][1] = 215 /\ buff[3][2] # <<ZERO>> /\ buff[4][1] = 216
    /\ buff[5][1] = 683 /\ buff[6][1] = 688
    /\ \A q \in 7..(p - 1) : buff[q][1] \in {688, 689}
    /\ buff[p][1] \notin {688, 689}

\* C19: when the sub-group 683 inside a repetition of 215 hands back the
\* token T: if T is 216, the first tag of 215, the repetition is closed and
\* T opens the next one, although 216 is a member tag too; if T is the
\* member tag 217 it is added to the repetition, which goes on; otherwise
\* the repetition is closed, group 215 ends and T is handled at the top
\* level, as are the tokens after it.
C19_HandedBack ==
    pc = "loaded" =>
       \A p \in DOMAIN buff :
          HandedBack(p) =>
             /\ Has(a.d, 215) /\ IsGroup(At(a.d, 215))
             /\ Has(At(a.d, 215).v[1], 683)
             /\ buff[p][1] = 216 =>
                   /\ Len(At(a.d, 215).v) >= 2
                   /\ Keys(At(a.d, 215).v[1]) = {216, 683}
                   /\ At(At(a.d, 215).v[1], 216) = StrVal(buff[4][2])
                   /\ At(a.d, 215).v[2][1].k = 216
                   /\ At(At(a.d, 215).v[2], 216) = StrVal(buff[p][2])
             /\ buff[p][1] = 217 =>
                   /\ Has(At(a.d, 215).v[1], 217)
                   /\ ~Later(p, 217) =>
                         At(At(a.d, 215).v[1], 217) = StrVal(buff[p][2])
                   /\ (p < Len(buff) /\ buff[p + 1][1] = 216) =>
                         /\ Len(At(a.d, 215).v) >= 2
                         /\ At(At(a.d, 215).v[2], 216) = StrVal(buff[p + 1][2])
                   /\ ~Later(p, 217) => ~Has(a.d, 217)
             /\ buff[p][1] \notin {216, 217} =>
                   /\ Len(At(a.d, 215).v) = 1
                   /\ \A q \in p..Len(buff) :
                         /\ Has(a.d, buff[q][1])
                         /\ ~Later(q, buff[q][1]) =>
                               At(a.d, buff[q][1]) = StrVal(buff[q][2])

\* the sub-group handed back 216 and, in another repetition, a token that
\* ended group 215
C19_Witness ==
    /\ pc = "loaded"
    /\ HandedBack(7)
    /\ buff[7][1] = 216
    /\ Len(buff) = 9
    /\ buff[8][1] = 217
    /\ buff[9][1] = 671
    /\ Has(a.d, 671)

(***************************************************************************)
(* No token is lost                                                        *)
(***************************************************************************)
RECURSIVE PlainHolders(_, _, _)
\* the fragments, d and the members of its groups at any depth, holding tag
\* with the value val
PlainHolders(d, tag, val) ==
    (IF Has(d, tag) /\ ~IsGroup(At(d, tag)) /\ At(d, tag).v = val THEN 1 ELSE 0)
    + SeqSum([i \in DOMAIN d |->
                IF IsGroup(d[i].e)
                THEN SeqSum([j \in DOMAIN d[i].e.v |->
                               PlainHolders(d[i].e.v[j], tag, val)])
                ELSE 0])

RECURSIVE GroupHolders(_, _)
\* the fragments holding a group under tag
GroupHolders(d, tag) ==
    (IF Has(d, tag) /\ IsGroup(At(d, tag)) THEN 1 ELSE 0)
    + SeqSum([i \in DOMAIN d |->
                IF IsGroup(d[i].e)
                THEN SeqSum([j \in DOMAIN d[i].e.v |->
                               GroupHolders(d[i].e.v[j], tag)])
                ELSE 0])

\* the count tags of message type "B", at any depth
CountTagsB == {215, 146, 683, 670}

\* the tokens of the buffer with the tag / equal to the token at position i
SameTag(i) == {q \in DOMAIN buff : buff[q][1] = buff[i][1]}
SameToken(i) == {q \in DOMAIN buff : buff[q] = buff[i]}

\* the token at position i is in the message: as a value or as a group
Kept(i) ==
    PlainHolders(a.d, buff[i][1], buff[i][2]) + GroupHolders(a.d, buff[i][1]) >= 1

\* no token is stored twice: no more fragments hold a tag than the buffer
\* has tokens with it, nor a value than the buffer has tokens with it
StoredOnce ==
    \A i \in DOMAIN buff :
       /\ Occurrences(a.d, buff[i][1]) <= Cardinality(SameTag(i))
       /\ PlainHolders(a.d, buff[i][1], buff[i][2]) <= Cardinality(SameToken(i))

\* a count tag token before position i and a token with the same tag after it
GroupOverwritten(i) ==
    \E c \in CountTagsB :
       /\ \E q \in 1..(i - 1) : buff[q][1] = c
       /\ Later(i, c)

\* C20 as stated: group-aware parsing never loses a token: every token of
\* the stream is stored in exactly one fragment of the result unless a later
\* token with the same tag overwrites it, also the token that ends a group
\* and is pushed back, and the token that follows it.
C20_NoTokenLost ==
    (pc = "loaded" /\ ResolvedB) =>
       /\ StoredOnce
       /\ \A i \in DOMAIN buff : ~Later(i, buff[i][1]) => Kept(i)

\* C20, amended: every token of the stream is stored in exactly one fragment
\* of the result unless a later token with the same tag overwrites it, or
\* overwrites the group it was stored in (a count tag token before it, a
\* token with that tag after it); the token that ends a group and is pushed
\* back is stored, and so is the token that follows it.
C20_NoTokenLostButOverwritten ==
    (pc = "loaded" /\ ResolvedB) =>
       /\ StoredOnce
       /\ \A i \in DOMAIN buff :
             (~Later(i, buff[i][1]) /\ ~GroupOverwritten(i)) => Kept(i)

\* the token after 688 ended the sub-group and the group, was pushed back
\* and is at the top level, and the token behind it, the last of the buffer,
\* is there too
C20_Witness ==
    /\ pc = "loaded"
    /\ fam = 3
    /\ Len(buff) = 8
    /\ buff[7][1] = 671
    /\ buff[8][1] = 670
    /\ At(a.d, 671) = StrVal(buff[7][2])
    /\ At(a.d, 670) = StrVal(buff[8][2])
    /\ Keys(At(a.d, 215).v[1]) = {216, 683}

(***************************************************************************)
(* Consecutive groups                                                      *)
(***************************************************************************)
\* C21: a token whose tag is the count tag of a known group starts that
\* group in the scope that knows it, also when it is the token that ended
\* the previous group: a 215 token at the top level is stored as a
\* RepeatingGroup, and inside the first repetition of 215 the count tag 670
\* that ends the nested group 683 is stored as a nested RepeatingGroup of
\* that same repetition.
C21_CountTagStartsGroup ==
    (pc = "loaded" /\ ResolvedB) =>
       /\ \A i \in DOMAIN buff :
             (buff[i][1] = 215 /\ ~Later(i, 215)) =>
                /\ Has(a.d, 215)
                /\ IsGroup(At(a.d, 215))
       /\ \A p \in DOMAIN buff :
             (HandedBack(p) /\ buff[p][1] = 670) =>
                /\ Has(At(a.d, 215).v[1], 670)
                /\ IsGroup(At(At(a.d, 215).v[1], 670))
                /\ ~Has(a.d, 670)

(***************************************************************************)
(* The ranks of a sorting key                                              *)
(***************************************************************************)
\* key ranks the tags of flat strictly in the order of flat
Ordered(key, flat) ==
    \A i, j \in DOMAIN flat :
       i < j => /\ flat[i] \in DOMAIN key
                /\ flat[j] \in DOMAIN key
                /\ key[flat[i]] < key[flat[j]]

\* the tags of s
TagSet(s) == {s[i] : i \in DOMAIN s}

\* C22: the sorting key of message type "B" and of each of its groups ranks
\* the body elements strictly in flattened composition order (components
\* expanded in place, a group contributing only its count tag): every tag
\* of a component ranks below every field declared after the component, and
\* the members of a group have no rank at the level of its count tag.
C22_CompositionOrder ==
    /\ Truthy(mt.sorting_key) =>
          /\ Ordered(mt.sorting_key, FlattenTop(CompB))
          /\ \A g \in DOMAIN mt.groups :
                \A t \in TagSet(FlattenTop(mt.groups[g])) :
                   t \notin DOMAIN mt.sorting_key
    /\ \A g \in DOMAIN mt.group_keys :
          Ordered(mt.group_keys[g], FlattenTop(GroupAt(mt.groups, g)))

\* the last place of tag t in list, counted from 0
LastIndex(list, t) ==
    (CHOOSE i \in DOMAIN list :
        /\ list[i] = t
        /\ \A j \in DOMAIN list : list[j] = t => j <= i) - 1

\* the trailer tags hold the highest ranks, the last of the list the highest,
\* tag 10 the maximum of all ranks, and every other tag that is no header tag
\* ranks above all header tags and below all trailer tags
TrailerAndBody(key, header, trailer) ==
    /\ \A i \in DOMAIN trailer :
          /\ trailer[i] \in DOMAIN key
          /\ key[trailer[i]] = TrailerBase - (Len(trailer) - i)
    /\ \A t \in DOMAIN key : key[t] <= key[10]
    /\ \A t \in (DOMAIN key) \ (TagSet(header) \cup TagSet(trailer)) :
          /\ \A h \in TagSet(header) : key[h] < key[t]
          /\ \A r \in TagSet(trailer) : key[t] < key[r]

\* the ranks as stated: tag 35 has rank 0, the other header tags their place
RanksWith35First(key, header, trailer) ==
    /\ \A t \in TagSet(header) :
          /\ t \in DOMAIN key
          /\ key[t] = IF t = 35 THEN 0 ELSE LastIndex(header, t)
    /\ \A t \in TagSet(header) : key[t] \in 0..(Len(header) - 1)
    /\ TrailerAndBody(key, header, trailer)

\* the ranks with every header tag, 35 too, ranked by its place in the list
RanksByPlace(key, header, trailer) ==
    /\ \A t \in TagSet(header) :
          /\ t \in DOMAIN key
          /\ key[t] = LastIndex(header, t)
    /\ 35 \notin TagSet(header) => key[35] = 0
    /\ TrailerAndBody(key, header, trailer)

\* the sorting key computed for a spec that declares no header and no
\* trailer: the lists of the module are used
FallbackKey == ExtractSortingKey(CompB, <<>>, <<>>)

\* C23 as stated: in every computed sorting key the header tags have ranks
\* 0..H-1 in declared header order except that tag 35 has rank 0, the
\* trailer tags hold the highest ranks with the last declared trailer tag
\* highest, tag 10 has the maximum rank, and every body rank lies above all
\* header ranks and below all trailer ranks.
C23_HeaderTrailerRanks ==
    /\ Truthy(mt.sorting_key) =>
          RanksWith35First(mt.sorting_key, SpecHeaderTags, SpecTrailerTags)
    /\ \A g \in DOMAIN mt.group_keys :
          RanksWith35First(mt.group_keys[g], SpecHeaderTags, SpecTrailerTags)

\* C23, amended: in every computed sorting key each header tag, tag 35 too,
\* has as rank its place in the header list (the last one if it is listed
\* twice; 35 keeps rank 0 only if the list does not name it), the trailer
\* tags hold the highest ranks with the last declared trailer tag highest,
\* tag 10 has the maximum rank, and every body rank lies above all header
\* ranks and below all trailer ranks; for the declared lists of the spec and
\* for the lists of the module used when the spec declares none.
C23_RanksByPlace ==
    /\ Truthy(mt.sorting_key) =>
          /\ RanksByPlace(mt.sorting_key, SpecHeaderTags, SpecTrailerTags)
          /\ RanksByPlace(FallbackKey, HEADER_TAGS, TRAILER_TAGS)
    /\ \A g \in DOMAIN mt.group_keys :
          RanksByPlace(mt.group_keys[g], SpecHeaderTags, SpecTrailerTags)

\* serialise has computed the key of the message type and of group 215:
\* tag 35 has rank 2, its place in the header 8, 9, 35, 49
C23_Witness ==
    /\ pc = "serialised"
    /\ Truthy(mt.sorting_key)
    /\ mt.sorting_key[35] = 2
    /\ mt.sorting_key[8] = 0
    /\ 215 \in DOMAIN mt.group_keys
    /\ mt.group_keys[215][35] = 2

(***************************************************************************)
(* The message type lookahead                                              *)
(***************************************************************************)
\* the places among the first four tokens that hold tag 35
In4 == {i \in 1..4 : i <= Len(buff) /\ buff[i][1] = 35}

\* C24: with a spec and groups enabled, a buffer that parse returned a
\* fragment for was parsed with the message type the value of tag 35 names
\* when tag 35 is among its first four tokens (a 215 token not overwritten
\* later is a RepeatingGroup for type "B", the buffer is flat for a value
\* that names no type), and was parsed flat when tag 35 is absent from the
\* first four tokens, also when it occurs at place five or later.
C24_LookAhead ==
    (pc = "loaded" /\ Family.spec /\ ~Family.no_groups) =>
       /\ (In4 # {} /\ buff[SetMax(In4)][2] = MsgTypeB) =>
             \A i \in DOMAIN buff :
                (buff[i][1] = 215 /\ ~Later(i, 215)) =>
                   /\ Has(a.d, 215)
                   /\ IsGroup(At(a.d, 215))
       /\ (In4 # {} /\ buff[SetMax(In4)][2] \notin DOMAIN MsgTypes) =>
             FlatOf(a.d)
       /\ In4 = {} => FlatOf(a.d)

\* tag 35 with the value of type "B" at place five, a 215 token behind it:
\* the message holds 215 as a plain value
C24_Witness ==
    /\ pc = "loaded"
    /\ fam = 8
    /\ Len(buff) = 6
    /\ In4 = {}
    /\ buff[5] = Tok(35, MsgTypeB)
    /\ buff[6][1] = 215
    /\ Has(a.d, 215)
    /\ ~IsGroup(At(a.d, 215))

(***************************************************************************)
(* Termination of parse.                                                   *)
(***************************************************************************)
\* the steps of the call have built what Codec.parse computes
Stepwise ==
    run.msg = Parse(NewCodec(Family.spec, Family.no_groups),
                    Wire(buff, SEMICOLON), EQUALS, SEMICOLON).d

\* C25: a call of Codec.parse on a finite token stream with the acyclic
\* specification terminates: once the call is in its loop it returns, in
\* the meantime the generator delivers no token more than twice, every
\* call of _process_group that has returned was handed at least one token
\* or met the end of the stream, and the call returns the fragment.  (The
\* call that raises for fewer than four pairs ends too, without a result.)
C25_ParseTerminates ==
    /\ [](\A i \in DOMAIN run.delivered : run.delivered[i] <= 2)
    /\ [](\A i \in DOMAIN run.calls :
             run.calls[i].taken >= 1 \/ run.calls[i].stopped)
    /\ [](run.pc = "returned" => Stepwise)
    /\ (run.pc = "top") ~> (run.pc = "returned")

\* a call has returned after a nested group call handed a token back that
\* was delivered twice
C25_Witness ==
    /\ run.pc = "returned"
    /\ Len(run.calls) >= 2
    /\ \E i \in DOMAIN run.delivered : run.delivered[i] = 2
    /\ \E i \in DOMAIN run.calls : run.calls[i].stopped

(***************************************************************************)
(* != against ==                                                           *)
(***************************************************************************)
\* the step evaluates one of a == b, a != b right after the other
SecondComparison ==
    /\ pc \in {"compared", "compared_ne"}
    /\ pc' \in {"compared", "compared_ne"}
    /\ pc' # pc

\* C26: a != b is true exactly when a == b is false, whichever of the two
\* is evaluated first on the pair: the comparison that follows the other
\* one never returns the same truth value.
C26_NeNegatesEq == [][SecondComparison => res' # res]_vars

(***************************************************************************)
(* What == does to its operands                                            *)
(***************************************************************************)
\* the entries of the mapping other than tags 9 and 10, in their order
Without910(d) == SelectSeq(d, LAMBDA e : e.k \notin {9, 10})

\* m1 is m with tags 9 and 10 removed and nothing else changed
OnlyStripped(m, m1) ==
    /\ m1.d = Without910(m.d)
    /\ m1 = [m EXCEPT !.d = m1.d]

\* C27: evaluating a == b on two messages removes tags 9 and 10 from a and
\* from b; every other tag and every attribute of both is left as it was.
C27_EqStripsBoth ==
    [][pc' = "compared" => OnlyStripped(a, a') /\ OnlyStripped(b, b')]_vars

\* two messages that held tags 9 and 10 have compared unequal and hold them
\* no more, their other tags kept
C27_Witness ==
    /\ pc = "compared" /\ res = "False"
    /\ ~Has(a.d, 9) /\ ~Has(a.d, 10) /\ ~Has(b.d, 9) /\ ~Has(b.d, 10)
    /\ Has(a.d, 58) /\ Has(b.d, 215)
    /\ a.recipient # b.recipient

(***************************************************************************)
(* The stated count of a group                                             *)
(***************************************************************************)
\* the calls of _process_group that have returned, for a count tag with a
\* value other than 0 that a token followed
Counted ==
    {i \in DOMAIN run.calls :
        /\ run.toks[run.calls[i].at][2] # <<ZERO>>
        /\ run.calls[i].upto > run.calls[i].at}

\* the places of the tokens between the count tag of the call c and the
\* token that ended it
Span(c) == (c.at + 1)..c.upto

\* the places of the span that a nested call of _process_group took
Nested(c) ==
    {p \in Span(c) :
        \E j \in DOMAIN run.calls :
            /\ run.calls[j].at > c.at
            /\ run.calls[j].at < p
            /\ p <= run.calls[j].upto}

\* the places in the set that hold the tag
Holding(places, tag) == {p \in places : run.toks[p][1] = tag}

\* the tokens of the bytes that serialise returns for the parsed message
Reserialised ==
    Tokenise(Serialise(NewCodec(Family.spec, Family.no_groups), run.msg,
                       SEMICOLON, EQUALS).out, EQUALS, SEMICOLON)

\* the first token of the tag among toks is  tag=<number of members>
CountEmitted(toks, tag, group) ==
    \E i \in DOMAIN toks :
        /\ toks[i] = <<tag, IntToDigits(Len(group.v))>>
        /\ \A j \in 1..(i - 1) : toks[j][1] # tag

\* every group the message holds at the top level is written with its
\* number of members
ActualCounts(toks) ==
    \A k \in Keys(run.msg) :
        IsGroup(At(run.msg, k)) => CountEmitted(toks, k, At(run.msg, k))

\* C28 as stated: the number of members of a parsed group is the number of
\* occurrences of its first tag in its whole token span, whatever the
\* stated count, and serialise writes the number of members.
C28_MembersByFirstTag ==
    /\ \A i \in Counted :
          run.calls[i].members
            = Cardinality(Holding(Span(run.calls[i]), run.calls[i].first_tag))
    /\ (run.pc = "returned" /\ ResolvedB) => ActualCounts(Reserialised)

\* C28, amended: the number of members of a parsed group is the number of
\* occurrences of its first tag in its token span outside the spans of the
\* groups nested in it (a nested group whose first token carries that tag
\* keeps every further token of the tag for itself); the stated count is
\* never consulted, and serialise writes the number of members in its place.
C28_MembersByOwnFirstTag ==
    /\ \A i \in Counted :
          run.calls[i].members
            = Cardinality(Holding(Span(run.calls[i]) \ Nested(run.calls[i]),
                                  run.calls[i].first_tag))
    /\ (run.pc = "returned" /\ ResolvedB) => ActualCounts(Reserialised)

\* a parse has returned a group of one member for the stated count 2 and,
\* nested in it, a group of two members for the stated count 1
C28_Witness ==
    /\ run.pc = "returned"
    /\ \E i, j \in Counted :
          /\ run.toks[run.calls[i].at] = Tok(215, <<50>>)
          /\ run.calls[i].members = 1
          /\ run.toks[run.calls[j].at] = Tok(683, <<49>>)
          /\ run.calls[j].members = 2
    /\ \E i \in DOMAIN Reserialised : Reserialised[i] = Tok(215, <<49>>)

(***************************************************************************)
(* The members of a group                                                  *)
(***************************************************************************)
\* the call of _process_group that has just returned run.pending
LastCall == run.calls[Len(run.calls)]

\* C29: every RepeatingGroup that _process_group returns has at least one
\* member; when a token follows the count tag, first_tag is the tag of that
\* token, a declared member of the group or not, and every member holds
\* first_tag; when the count tag is the last token of the buffer, the group
\* holds exactly one member, which is empty.
C29_Members ==
    run.pending.some =>
        /\ Len(run.pending.contents.v) >= 1
        /\ LastCall.at < Len(run.toks) =>
              /\ run.pending.contents.ft = run.toks[LastCall.at + 1][1]
              /\ \A i \in DOMAIN run.pending.contents.v :
                    Has(run.pending.contents.v[i], run.pending.contents.ft)
        /\ LastCall.at = Len(run.toks) =>
              run.pending.contents.v = <<<<>>>>

\* group 215 has been returned with two members that each hold tag 58, no
\* declared member of the group, as the first tag
C29_Witness ==
    /\ run.pending.some
    /\ run.pending.tag = 215
    /\ run.pending.contents.ft = 58
    /\ Len(run.pending.contents.v) = 2
    /\ run.toks[LastCall.at + 1][1] = 58

(***************************************************************************)
(* Buffers of fewer than four pairs                                        *)
(***************************************************************************)
\* parse of the buffer with the codec returns the flat mapping
ParsesFlat(codec) ==
    /\ Parse(codec, Wire(buff, SEMICOLON), EQUALS, SEMICOLON).err = ""
    /\ FlatOf(Parse(codec, Wire(buff, SEMICOLON), EQUALS, SEMICOLON).d)

\* C30: with a spec and groups enabled, parse of a buffer of fewer than
\* four tag/value pairs ends in an IndexError and returns no fragment (the
\* message that called it stays empty); a codec without spec, or with
\* no_groups set, parses the same buffer to the flat mapping.
C30_ShortBuffer ==
    (pc \in {"loaded", "load_failed"} /\ Len(buff) < 4) =>
        /\ (Family.spec /\ ~Family.no_groups) =>
              (pc = "load_failed" /\ res = "IndexError" /\ a.d = <<>>)
        /\ (~Family.spec \/ Family.no_groups) =>
              (pc = "loaded" /\ res = "" /\ FlatOf(a.d))
        /\ ParsesFlat(NewCodec(FALSE, FALSE))
        /\ ParsesFlat(NewCodec(TRUE, TRUE))

\* the load of a buffer of three pairs that names message type B has failed
C30_Witness ==
    /\ pc = "load_failed"
    /\ res = "IndexError"
    /\ Len(buff) = 3
    /\ \E i \in DOMAIN buff : buff[i] = Tok(35, MsgTypeB)

====
